---------------------------- MODULE Spec2Model ----------------------------
(***************************************************************************)
(* Rdio Scanner, administrative back end (server/admin.go,                 *)
(* server/options.go): the configuration PUT handler and the Ingest Gate,  *)
(* the other administrative writers, and the hub goroutine that owns the   *)
(* registry of admin websocket connections; and the web client's service   *)
(* (RdioScannerService) that keeps the Livefeed Map of one session.        *)
(***************************************************************************)
EXTENDS Integers, Sequences, FiniteSets, TLC

(***************************************************************************)
(* Bounds of the model.                                                    *)
(***************************************************************************)
\* calls submitted to the ingestion pipeline
NumCalls == 2
\* admin websocket connections
NumConns == 2
\* store operations (Write / Read) that may fail in one behaviour
MaxFailures == 1

\* the two configuration PUT requests that may overlap
Puts == {1, 2}
ConnIds == 1..NumConns
Calls == 1..NumCalls

(***************************************************************************)
(* The configuration sections, in the order ConfigHandler applies them.    *)
(***************************************************************************)
SectionNames ==
    <<"access", "apiKeys", "dirWatch", "downstreams", "groups", "options",
      "systems", "tags">>

NumSections == Len(SectionNames)

ListSections == {SectionNames[i] : i \in 1..NumSections} \ {"options"}

VARIABLES
    \* Controller: the Ingest Gate and the ingestion pipeline
    gate,           \* set of holders of the Ingest Gate (empty: free)
    inflight,       \* queue of the calls submitted and not yet stored
    ingesting,      \* the ingestion goroutine holds the gate for a call
    stored,         \* the Call Store, in storing order
    \* Admin
    amutex,         \* admin.mutex: set of holders
    Tokens,         \* admin.Tokens
    Attempts,       \* admin.Attempts: remote address -> Count, 0 for none
    nextId,         \* the number of the next uuid
    lastReq,        \* the last login or logout request and its answer
    \* Duplicate Detector and Call Store
    now,            \* the time, in seconds
    candidates,     \* normalized candidates waiting for the detector
    window,         \* the Duplicate Window Entries
    calls,          \* the calls the Call Store holds, in storing order
    lastId,         \* the last identifier the Call Store assigned
    processed,      \* every candidate the detector saw, with its identifier
    disableDuplicateDetection,  \* options.DisableDuplicateDetection
    \* configuration caches and the database
    mem,            \* in-memory List of every list section
    options,        \* Controller.Options
    dbLists,        \* database tables of the list sections
    dbConfigs,      \* rdioScannerConfigs rows
    dirwatchRunning,\* the directory watchers are running
    \* one configuration PUT request per element of Puts
    pc, body, sec, response, emitted, started, order,
    failures,       \* store operations that have failed so far
    \* the hub goroutine of Admin.Start and the admin websocket connections
    Conns,          \* admin.Conns, the registry
    hubpc,          \* "select", "broadcast" or "unregister"
    hubTodo,        \* connections the broadcast loop has still to visit
    hubConn,        \* the connection the hub is sending to admin.Unregister
    delivered,      \* connections that received the current broadcast
    connpc,         \* where each connection's handler / reader goroutine is
    transport,      \* "open", "broken" (the peer is gone) or "closed"
    crashed,        \* the Go runtime has thrown a fatal error
    \* one user-add, user-remove or password request at a time
    wpc, wnew, wold, wTodo, wresp,
    \* RdioScannerService, the client of one session
    config,         \* config.systems: system id -> set of talkgroup ids
    livefeedMap,    \* system id -> (talkgroup id -> BOOLEAN)
    livefeedMapPriorToHoldSystem,    \* {} (undefined) or {map}
    livefeedMapPriorToHoldTalkgroup, \* {} (undefined) or {map}
    livefeedMode,   \* "offline", "online" or "playback"
    call,           \* {} (undefined) or {the call being played}
    callPrevious,   \* {} (undefined) or {the call played before}
    callQueue,      \* sequence of calls
    playbackGoesLive,   \* config.playbackGoesLive
    playbackList,       \* {} (undefined) or {the list of the last search}
    playbackPending,    \* {} (undefined) or {id of the call asked to play}
    playbackRefreshing, \* the search list has been asked again at its end
    skipDelay,          \* the timer of skip({delay: true}) is running
    requests,           \* requests sent to the server and not answered yet
    serverCalls,        \* number of calls the server has stored
    lastOp          \* the operation of the service that ran last

ingestVars == <<gate, inflight, ingesting, stored>>
cfgVars == <<mem, options, dbLists, dbConfigs>>
putVars == <<pc, body, sec, response, emitted, started, order>>
hubVars ==
    <<Conns, hubpc, hubTodo, hubConn, delivered, connpc, transport, crashed>>
writerVars == <<wpc, wnew, wold, wTodo, wresp>>
clientVars ==
    <<config, livefeedMap, livefeedMapPriorToHoldSystem,
      livefeedMapPriorToHoldTalkgroup, livefeedMode, call, callPrevious,
      callQueue, playbackGoesLive, playbackList, playbackPending,
      playbackRefreshing, skipDelay, requests, serverCalls, lastOp>>
loginVars == <<Attempts, nextId, lastReq>>
storeVars ==
    <<now, candidates, window, calls, lastId, processed,
      disableDuplicateDetection>>
adminVars ==
    <<ingestVars, amutex, Tokens, cfgVars, dirwatchRunning, putVars,
      failures, hubVars, writerVars>>
vars ==
    <<ingestVars, amutex, Tokens, cfgVars, dirwatchRunning, putVars,
      failures, hubVars, writerVars, clientVars, loginVars, storeVars>>

\* the service after its constructor (part_001 75-117): no configuration
\* received yet, an empty Livefeed Map, no hold, livefeed off
ClientInit ==
    /\ config = <<>>
    /\ livefeedMap = <<>>
    /\ livefeedMapPriorToHoldSystem = {}
    /\ livefeedMapPriorToHoldTalkgroup = {}
    /\ livefeedMode = "offline"
    /\ call = {}
    /\ callPrevious = {}
    /\ callQueue = <<>>
    /\ playbackGoesLive = FALSE
    /\ playbackList = {}
    /\ playbackPending = {}
    /\ playbackRefreshing = FALSE
    /\ skipDelay = FALSE
    /\ requests = {}
    /\ serverCalls = 1
    /\ lastOp = "constructor"


(***************************************************************************)
(* Options (server/options.go).  The fourteen public fields are kept as    *)
(* one representative of each way FromMap and Read treat a field:          *)
(*   AfsSystems        kept by FromMap when absent, never reset by Read    *)
(*   AutoPopulate      set to its default by FromMap when absent           *)
(*   PlaybackGoesLive  kept by FromMap when absent, reset by Read          *)
(* and the three private fields adminPassword, adminPasswordNeedChange and *)
(* secret.                                                                 *)
(***************************************************************************)
DefaultAdminPassword == "rdio-scanner"
DefaultAdminPasswordNeedChange == TRUE
DefaultAutoPopulate == TRUE
DefaultPlaybackGoesLive == FALSE

\* bcrypt.GenerateFromPassword
Hash(password) == <<"bcrypt", password>>

\* bcrypt.CompareHashAndPassword(hash, password) == nil
CompareHashAndPassword(hash, password) == hash = Hash(password)

OptionKeys == {"afsSystems", "autoPopulate", "playbackGoesLive"}

\* Options.FromMap: m.keys are the keys present with the expected JSON type
OptionsFromMap(o, m) ==
    [o EXCEPT
        !.AfsSystems = IF "afsSystems" \in m.keys THEN m.afsSystems ELSE @,
        !.AutoPopulate =
            IF "autoPopulate" \in m.keys THEN m.autoPopulate
            ELSE DefaultAutoPopulate,
        !.PlaybackGoesLive =
            IF "playbackGoesLive" \in m.keys THEN m.playbackGoesLive ELSE @]

\* the JSON object Options.Write stores under the key 'options'
OptionsJson(o) ==
    [afsSystems |-> o.AfsSystems,
     autoPopulate |-> o.AutoPopulate,
     playbackGoesLive |-> o.PlaybackGoesLive]

\* Options.Write stops at the first Exec that fails: n is the number of
\* Exec statements that succeed (adminPassword, adminPasswordNeedChange,
\* options, in this order)
OptionsWriteStages == 3

OptionsWrite(o, db, n) ==
    [db EXCEPT
        !.adminPassword = IF n >= 1 THEN o.adminPassword ELSE @,
        !.adminPasswordNeedChange =
            IF n >= 2 THEN o.adminPasswordNeedChange ELSE @,
        !.options = IF n >= 3 THEN OptionsJson(o) ELSE @]

\* Options.Write returns an error
OptionsWriteFails(n) == n < OptionsWriteStages

ConfigRows == {"adminPassword", "adminPasswordNeedChange", "options", "secret"}

\* Options.Read: every field but AfsSystems and secret is first set to its
\* default, then each row whose query succeeds overrides it; lost are the
\* rows whose QueryRow fails.  Read always returns nil.
OptionsRead(o, db, lost) ==
    [AfsSystems |->
        IF "options" \in lost THEN o.AfsSystems ELSE db.options.afsSystems,
     AutoPopulate |->
        IF "options" \in lost THEN DefaultAutoPopulate
        ELSE db.options.autoPopulate,
     PlaybackGoesLive |->
        IF "options" \in lost THEN DefaultPlaybackGoesLive
        ELSE db.options.playbackGoesLive,
     adminPassword |->
        IF "adminPassword" \in lost THEN Hash(DefaultAdminPassword)
        ELSE db.adminPassword,
     adminPasswordNeedChange |->
        IF "adminPasswordNeedChange" \in lost
        THEN DefaultAdminPasswordNeedChange
        ELSE db.adminPasswordNeedChange,
     secret |-> IF "secret" \in lost THEN o.secret ELSE db.secret]

(***************************************************************************)
(* Tokens (admin.go).  A token is the JWT id together with the secret it   *)
(* was signed with.                                                        *)
(***************************************************************************)
SignedToken(id, secret) == [id |-> id, key |-> secret]

\* Admin.ValidateToken
ValidateToken(sToken) ==
    /\ \E i \in 1..Len(Tokens) : Tokens[i] = sToken
    /\ sToken.key = options.secret

(***************************************************************************)
(* The body of a configuration PUT: present are the sections whose key is  *)
(* in the decoded JSON with the expected type, list the value submitted    *)
(* for every list section, optmap the options object.                      *)
(***************************************************************************)
AfsNames == <<"1", "2", "3", "4">>

FullOptionMap(p) ==
    [keys |-> OptionKeys, afsSystems |-> AfsNames[p],
     autoPopulate |-> FALSE, playbackGoesLive |-> TRUE]

EmptyOptionMap ==
    [keys |-> {}, afsSystems |-> "", autoPopulate |-> FALSE,
     playbackGoesLive |-> FALSE]

AllSections == {SectionNames[i] : i \in 1..NumSections}

\* the bodies a request may carry: every section with a full options
\* object, or only dirWatch and an options object without any key
Bodies(p) ==
    {[present |-> AllSections, list |-> {p}, optmap |-> FullOptionMap(p)],
     [present |-> {"dirWatch", "options"}, list |-> {p},
      optmap |-> EmptyOptionMap]}

NoBody == [present |-> {}, list |-> {}, optmap |-> EmptyOptionMap]

\* the first section after index i that the body holds; NumSections + 1
\* when there is none (the type switches of the absent sections match
\* nothing)
NextSection(b, i) ==
    LET later == {j \in (i+1)..NumSections : SectionNames[j] \in b.present}
    IN  IF later = {} THEN NumSections + 1
        ELSE CHOOSE j \in later : \A k \in later : j <= k

PutProc(p) == <<"put", p>>
WriterProc == <<"writer", 0>>
IngestProc == <<"ingest", 0>>

TokenA == SignedToken(1, "s3cret")
BadToken == SignedToken(0, "forged")

\* the detector and the store of a server that has ingested nothing, the
\* detector enabled
StoreInit ==
    /\ now = 0
    /\ candidates = <<>>
    /\ window = {}
    /\ calls = <<>>
    /\ lastId = 0
    /\ processed = <<>>
    /\ disableDuplicateDetection = FALSE

\* the addresses login requests come from
RemoteAddrs == {"10.0.0.1", "10.0.0.2"}

\* 57, 64: no attempt yet; the token of Init is the first that was issued
LoginInit ==
    /\ Attempts = [a \in RemoteAddrs |-> 0]
    /\ nextId = 2
    /\ lastReq = [op |-> "none", status |-> 0, t |-> BadToken]

\* the configuration the server starts with: the caches have been read
\* from the database
InitLists == [s \in ListSections |-> {}]

InitOptions ==
    [AfsSystems |-> "", AutoPopulate |-> DefaultAutoPopulate,
     PlaybackGoesLive |-> DefaultPlaybackGoesLive,
     adminPassword |-> Hash(DefaultAdminPassword),
     adminPasswordNeedChange |-> DefaultAdminPasswordNeedChange,
     secret |-> "s3cret"]

\* the admin password and its need-change flag, as ChangePassword finds
\* them when it is called
PasswordOf(o) ==
    [adminPassword |-> o.adminPassword,
     adminPasswordNeedChange |-> o.adminPasswordNeedChange]

InitConfigs ==
    [adminPassword |-> InitOptions.adminPassword,
     adminPasswordNeedChange |-> InitOptions.adminPasswordNeedChange,
     options |-> OptionsJson(InitOptions),
     secret |-> InitOptions.secret]

Init ==
    /\ gate = {}
    /\ inflight = <<>>
    /\ ingesting = FALSE
    /\ stored = <<>>
    /\ amutex = {}
    /\ Tokens = <<TokenA>>
    /\ mem = InitLists
    /\ dbLists = InitLists
    /\ options = InitOptions
    /\ dbConfigs = InitConfigs
    /\ dirwatchRunning = TRUE
    /\ pc = [p \in Puts |-> "idle"]
    /\ body = [p \in Puts |-> NoBody]
    /\ sec = [p \in Puts |-> 0]
    /\ response = [p \in Puts |-> 0]
    /\ emitted = [p \in Puts |-> 0]
    /\ started = [p \in Puts |-> 0]
    /\ order = <<>>
    /\ failures = 0
    /\ Conns = {}
    /\ hubpc = "select"
    /\ hubTodo = {}
    /\ hubConn = {}
    /\ delivered = {}
    /\ connpc = [c \in ConnIds |-> "none"]
    /\ transport = [c \in ConnIds |-> "open"]
    /\ crashed = FALSE
    /\ wpc = "idle"
    /\ wnew = ""
    /\ wold = PasswordOf(InitOptions)
    /\ wTodo = {}
    /\ wresp = 0
    /\ ClientInit
    /\ LoginInit
    /\ StoreInit

(***************************************************************************)
(* Admin.ConfigHandler, method PUT (admin.go 150-288), one action per      *)
(* statement that touches shared state.                                    *)
(***************************************************************************)
\* the PUT going on after it has answered 400 to an undecodable body
PutRequest_NoReturnOn400(p, t, decoded, b) ==
    /\ pc[p] = "idle"
    /\ IF ~ValidateToken(t)
       THEN /\ response' = [response EXCEPT ![p] = 401]
            /\ pc' = [pc EXCEPT ![p] = "done"]
            /\ UNCHANGED body
       ELSE IF ~decoded
       THEN /\ response' = [response EXCEPT ![p] = 400]
            /\ pc' = [pc EXCEPT ![p] = "ingestlock"]
            /\ UNCHANGED body
       ELSE /\ body' = [body EXCEPT ![p] = b]
            /\ pc' = [pc EXCEPT ![p] = "ingestlock"]
            /\ UNCHANGED response
    /\ UNCHANGED <<clientVars, loginVars, storeVars>>
    /\ UNCHANGED <<hubVars, writerVars, ingestVars, amutex, Tokens, cfgVars, dirwatchRunning,
                   sec, emitted, started, order, failures>>

\* 150-166: the token is validated and the body decoded
PutRequest(p, t, decoded, b) ==
    /\ pc[p] = "idle"
    /\ IF ~ValidateToken(t)
       THEN /\ response' = [response EXCEPT ![p] = 401]
            /\ pc' = [pc EXCEPT ![p] = "done"]
            /\ UNCHANGED body
       ELSE IF ~decoded
       THEN /\ response' = [response EXCEPT ![p] = 400]
            /\ pc' = [pc EXCEPT ![p] = "done"]
            /\ UNCHANGED body
       ELSE /\ body' = [body EXCEPT ![p] = b]
            /\ pc' = [pc EXCEPT ![p] = "ingestlock"]
            /\ UNCHANGED response
    /\ UNCHANGED <<clientVars, loginVars, storeVars>>
    /\ UNCHANGED <<hubVars, writerVars, ingestVars, amutex, Tokens, cfgVars, dirwatchRunning,
                   sec, emitted, started, order, failures>>

\* Controller.IngestLock / IngestUnlock: the Ingest Gate is a plain mutex
IngestLock(who) ==
    /\ gate = {}
    /\ gate' = {who}

IngestUnlock(who) ==
    /\ gate' = gate \ {who}

\* the handler without line 168: it goes on without the Ingest Gate
PutIngestLock_NoGate(p) ==
    /\ pc[p] = "ingestlock"
    /\ pc' = [pc EXCEPT ![p] = "mutexlock"]
    /\ UNCHANGED <<clientVars, loginVars, storeVars>>
    /\ UNCHANGED <<hubVars, writerVars, ingestVars, amutex, Tokens, cfgVars,
                   dirwatchRunning, body, sec, response, emitted, started,
                   order, failures>>

\* 168: admin.Controller.IngestLock()
PutIngestLock(p) ==
    /\ pc[p] = "ingestlock"
    /\ IngestLock(PutProc(p))
    /\ pc' = [pc EXCEPT ![p] = "mutexlock"]
    /\ UNCHANGED <<clientVars, loginVars, storeVars>>
    /\ UNCHANGED <<hubVars, writerVars, inflight, ingesting, stored, amutex, Tokens,
                   cfgVars, dirwatchRunning, body, sec, response, emitted,
                   started, order, failures>>

\* 169: admin.mutex.Lock()
PutMutexLock(p) ==
    /\ pc[p] = "mutexlock"
    /\ amutex = {}
    /\ amutex' = {p}
    /\ order' = Append(order, p)
    /\ pc' = [pc EXCEPT ![p] = "stop"]
    /\ UNCHANGED <<clientVars, loginVars, storeVars>>
    /\ UNCHANGED <<hubVars, writerVars, ingestVars, Tokens, cfgVars, dirwatchRunning, body, sec,
                   response, emitted, started, failures>>

\* Dirwatches.Stop / Dirwatches.Start
DirwatchesStop == dirwatchRunning' = FALSE

DirwatchesStart == dirwatchRunning' = TRUE

\* where the handler goes after section i
Advance(p, i) ==
    LET n == NextSection(body[p], i)
    IN  /\ sec' = [sec EXCEPT ![p] = n]
        /\ pc' = [pc EXCEPT ![p] =
                    IF n <= NumSections THEN "frommap" ELSE "mutexunlock"]

\* the handler with lines 280-281 moved up to follow line 171: both locks
\* are released before the sections are applied
PutDirwatchesStop_Unlocks(p) ==
    /\ pc[p] = "stop"
    /\ DirwatchesStop
    /\ Advance(p, 0)
    /\ amutex' = amutex \ {p}
    /\ IngestUnlock(PutProc(p))
    /\ UNCHANGED <<clientVars, loginVars, storeVars>>
    /\ UNCHANGED <<hubVars, writerVars, inflight, ingesting, stored, Tokens,
                   cfgVars, body, response, emitted, started, order,
                   failures>>

\* 171: admin.Controller.Dirwatches.Stop()
PutDirwatchesStop(p) ==
    /\ pc[p] = "stop"
    /\ DirwatchesStop
    /\ Advance(p, 0)
    /\ UNCHANGED <<clientVars, loginVars, storeVars>>
    /\ UNCHANGED <<hubVars, writerVars, ingestVars, amutex, Tokens, cfgVars, body, response,
                   emitted, started, order, failures>>

\* 175, 189, 203, 217, 231, 245, 254, 268: <section>.FromMap(v)
PutFromMap(p) ==
    /\ pc[p] = "frommap"
    /\ LET s == SectionNames[sec[p]]
       IN  IF s = "options"
           THEN /\ options' = OptionsFromMap(options, body[p].optmap)
                /\ UNCHANGED mem
           ELSE /\ mem' = [mem EXCEPT ![s] = body[p].list]
                /\ UNCHANGED options
    /\ pc' = [pc EXCEPT ![p] = "write"]
    /\ UNCHANGED <<clientVars, loginVars, storeVars>>
    /\ UNCHANGED <<hubVars, writerVars, ingestVars, amutex, Tokens, dbLists, dbConfigs,
                   dirwatchRunning, body, sec, response, emitted, started,
                   order, failures>>

\* <list section>.Write: the table holds the List, or the write fails and
\* the table is as before
ListWrite(s, ok) ==
    dbLists' = IF ok THEN [dbLists EXCEPT ![s] = mem[s]] ELSE dbLists

\* <list section>.Read: the List is what the table holds, or the read fails
ListRead(s, ok) ==
    mem' = IF ok THEN [mem EXCEPT ![s] = dbLists[s]] ELSE mem

\* the handler returning on a failed write, as the other handlers do,
\* without releasing the locks
PutWrite_ReturnsOnError(p, n) ==
    /\ pc[p] = "write"
    /\ LET s == SectionNames[sec[p]]
           failed == OptionsWriteFails(n)
       IN  /\ failed => failures < MaxFailures
           /\ failures' = IF failed THEN failures + 1 ELSE failures
           /\ s # "options" => n \in {0, OptionsWriteStages}
           /\ IF s = "options"
              THEN /\ dbConfigs' = OptionsWrite(options, dbConfigs, n)
                   /\ UNCHANGED dbLists
              ELSE /\ ListWrite(s, ~failed)
                   /\ UNCHANGED dbConfigs
           /\ IF failed
              THEN /\ pc' = [pc EXCEPT ![p] = "done"]
                   /\ response' = [response EXCEPT ![p] = 417]
                   /\ UNCHANGED sec
              ELSE /\ UNCHANGED response
                   /\ IF s = "options" THEN Advance(p, sec[p])
                      ELSE /\ pc' = [pc EXCEPT ![p] = "read"]
                           /\ UNCHANGED sec
    /\ UNCHANGED <<clientVars, loginVars, storeVars>>
    /\ UNCHANGED <<hubVars, writerVars, ingestVars, amutex, Tokens, mem,
                   options, dirwatchRunning, body, emitted, started, order>>

\* 176-179, ..., 246-249, ...: err = <section>.Write(db); a failed write is
\* logged and the section's Read is skipped; the options are never re-read
PutWrite(p, n) ==
    /\ pc[p] = "write"
    /\ LET s == SectionNames[sec[p]]
           failed == OptionsWriteFails(n)
       IN  /\ failed => failures < MaxFailures
           /\ failures' = IF failed THEN failures + 1 ELSE failures
           /\ IF s = "options"
              THEN /\ dbConfigs' = OptionsWrite(options, dbConfigs, n)
                   /\ UNCHANGED dbLists
                   /\ Advance(p, sec[p])
              ELSE /\ n \in {0, OptionsWriteStages}
                   /\ ListWrite(s, ~failed)
                   /\ UNCHANGED dbConfigs
                   /\ IF failed
                      THEN Advance(p, sec[p])
                      ELSE /\ pc' = [pc EXCEPT ![p] = "read"]
                           /\ UNCHANGED sec
    /\ UNCHANGED <<clientVars, loginVars, storeVars>>
    /\ UNCHANGED <<hubVars, writerVars, ingestVars, amutex, Tokens, mem, options, dirwatchRunning,
                   body, response, emitted, started, order>>

\* 180-183, ...: err = <section>.Read(db), logged when it fails
PutRead(p, ok) ==
    /\ pc[p] = "read"
    /\ ~ok => failures < MaxFailures
    /\ failures' = IF ok THEN failures ELSE failures + 1
    /\ ListRead(SectionNames[sec[p]], ok)
    /\ Advance(p, sec[p])
    /\ UNCHANGED <<clientVars, loginVars, storeVars>>
    /\ UNCHANGED <<hubVars, writerVars, ingestVars, amutex, Tokens, options, dbLists, dbConfigs,
                   dirwatchRunning, body, response, emitted, started, order>>

\* 280: admin.mutex.Unlock()
PutMutexUnlock(p) ==
    /\ pc[p] = "mutexunlock"
    /\ amutex' = amutex \ {p}
    /\ pc' = [pc EXCEPT ![p] = "ingestunlock"]
    /\ UNCHANGED <<clientVars, loginVars, storeVars>>
    /\ UNCHANGED <<hubVars, writerVars, ingestVars, Tokens, cfgVars, dirwatchRunning, body, sec,
                   response, emitted, started, order, failures>>

\* the handler without line 281: the Ingest Gate is never released
PutIngestUnlock_Missing(p) ==
    /\ pc[p] = "ingestunlock"
    /\ pc' = [pc EXCEPT ![p] = "emit"]
    /\ UNCHANGED <<clientVars, loginVars, storeVars>>
    /\ UNCHANGED <<hubVars, writerVars, ingestVars, amutex, Tokens, cfgVars,
                   dirwatchRunning, body, sec, response, emitted, started,
                   order, failures>>

\* 281: admin.Controller.IngestUnlock()
PutIngestUnlock(p) ==
    /\ pc[p] = "ingestunlock"
    /\ IngestUnlock(PutProc(p))
    /\ pc' = [pc EXCEPT ![p] = "emit"]
    /\ UNCHANGED <<clientVars, loginVars, storeVars>>
    /\ UNCHANGED <<hubVars, writerVars, inflight, ingesting, stored, amutex, Tokens,
                   cfgVars, dirwatchRunning, body, sec, response, emitted,
                   started, order, failures>>

\* the handler without line 283: no configuration is emitted
PutEmitConfig_Missing(p) ==
    /\ pc[p] = "emit"
    /\ pc' = [pc EXCEPT ![p] = "start"]
    /\ UNCHANGED <<clientVars, loginVars, storeVars>>
    /\ UNCHANGED <<hubVars, writerVars, ingestVars, amutex, Tokens, cfgVars,
                   dirwatchRunning, body, sec, response, emitted, started,
                   order, failures>>

\* 283: admin.Controller.EmitConfig()
PutEmitConfig(p) ==
    /\ pc[p] = "emit"
    /\ emitted' = [emitted EXCEPT ![p] = @ + 1]
    /\ pc' = [pc EXCEPT ![p] = "start"]
    /\ UNCHANGED <<clientVars, loginVars, storeVars>>
    /\ UNCHANGED <<hubVars, writerVars, ingestVars, amutex, Tokens, cfgVars, dirwatchRunning,
                   body, sec, response, started, order, failures>>

\* 284: admin.Controller.Dirwatches.Start(admin.Controller)
PutDirwatchesStart(p) ==
    /\ pc[p] = "start"
    /\ DirwatchesStart
    /\ started' = [started EXCEPT ![p] = @ + 1]
    /\ pc' = [pc EXCEPT ![p] = "send"]
    /\ UNCHANGED <<clientVars, loginVars, storeVars>>
    /\ UNCHANGED <<hubVars, writerVars, ingestVars, amutex, Tokens, cfgVars, body, sec, response,
                   emitted, order, failures>>

\* 286-288: admin.SendConfig(w)
PutSendConfig(p) ==
    /\ pc[p] = "send"
    /\ response' = [response EXCEPT ![p] = 200]
    /\ pc' = [pc EXCEPT ![p] = "done"]
    /\ UNCHANGED <<clientVars, loginVars, storeVars>>
    /\ UNCHANGED <<hubVars, writerVars, ingestVars, amutex, Tokens, cfgVars, dirwatchRunning,
                   body, sec, emitted, started, order, failures>>

(***************************************************************************)
(* The ingestion pipeline: a call is stored while the Ingest Gate is held. *)
(***************************************************************************)
\* a source submits the next call: it waits in the ingestion queue
Submit(c) ==
    /\ c = Len(stored) + Len(inflight) + 1
    /\ inflight' = Append(inflight, c)
    /\ UNCHANGED <<clientVars, loginVars, storeVars>>
    /\ UNCHANGED <<hubVars, writerVars, gate, ingesting, stored, amutex, Tokens, cfgVars,
                   dirwatchRunning, putVars, failures>>

\* the ingestion goroutine takes the first call and acquires the gate
IngestBegin ==
    /\ inflight # <<>>
    /\ ~ingesting
    /\ IngestLock(IngestProc)
    /\ ingesting' = TRUE
    /\ UNCHANGED <<clientVars, loginVars, storeVars>>
    /\ UNCHANGED <<hubVars, writerVars, inflight, stored, amutex, Tokens, cfgVars,
                   dirwatchRunning, putVars, failures>>

\* Normalizer / Store: the call is stored and the gate released
IngestStore ==
    /\ ingesting
    /\ stored' = Append(stored, Head(inflight))
    /\ inflight' = Tail(inflight)
    /\ ingesting' = FALSE
    /\ IngestUnlock(IngestProc)
    /\ UNCHANGED <<clientVars, loginVars, storeVars>>
    /\ UNCHANGED <<hubVars, writerVars, amutex, Tokens, cfgVars, dirwatchRunning, putVars,
                   failures>>

\* the steps of a PUT once the request is accepted
PutRun(p) ==
    \/ PutIngestLock(p)
    \/ PutMutexLock(p)
    \/ PutDirwatchesStop(p)
    \/ PutFromMap(p)
    \/ \E n \in 0..OptionsWriteStages : PutWrite(p, n)
    \/ \E ok \in BOOLEAN : PutRead(p, ok)
    \/ PutMutexUnlock(p)
    \/ PutIngestUnlock(p)
    \/ PutEmitConfig(p)
    \/ PutDirwatchesStart(p)
    \/ PutSendConfig(p)

PutStep(p) ==
    \/ \E t \in {TokenA, BadToken}, decoded \in BOOLEAN, b \in Bodies(p) :
          PutRequest(p, t, decoded, b)
    \/ PutRun(p)

IngestStep ==
    \/ \E c \in Calls : Submit(c)
    \/ IngestBegin
    \/ IngestStore

Next ==
    \/ \E p \in Puts : PutStep(p)
    \/ IngestStep

Spec == Init /\ [][Next]_vars

\* Every goroutine that can take a step eventually takes one; no request
\* and no call is ever forced to arrive.
FairSpec ==
    /\ Spec
    /\ \A p \in Puts : WF_vars(PutRun(p))
    /\ WF_vars(IngestBegin)
    /\ WF_vars(IngestStore)

(***************************************************************************)
(* Admin.UserAddHandler, Admin.UserRemoveHandler, Admin.PasswordHandler    *)
(* and Admin.ChangePassword (admin.go 78-113, 486-540, 601-679).  None of  *)
(* them takes the Ingest Gate or admin.mutex.                              *)
(***************************************************************************)
\* the access the user handlers add or remove
UserAccess == 0

\* Accesses.Add / Accesses.Remove
AccessesAdd(list, a) == list \cup {a}

AccessesRemove(list, a) == list \ {a}

\* the user add handler without the validation of the token
UserAddRequest_NoToken(t, decoded) ==
    /\ ~crashed
    /\ wpc = "idle"
    /\ IF ~decoded
       THEN wresp' = 400 /\ UNCHANGED <<wpc, mem>>
       ELSE /\ mem' = [mem EXCEPT !["access"] = AccessesAdd(@, UserAccess)]
            /\ wpc' = "write"
            /\ wresp' = 0
    /\ UNCHANGED <<clientVars, loginVars, storeVars>>
    /\ UNCHANGED <<ingestVars, amutex, Tokens, options, dbLists, dbConfigs,
                   dirwatchRunning, putVars, failures, hubVars, wnew, wold, wTodo>>

\* 608-621: the token is validated, the body decoded and the access added
UserAddRequest(t, decoded) ==
    /\ ~crashed
    /\ wpc = "idle"
    /\ IF ~ValidateToken(t)
       THEN wresp' = 401 /\ UNCHANGED <<wpc, mem>>
       ELSE IF ~decoded
       THEN wresp' = 400 /\ UNCHANGED <<wpc, mem>>
       ELSE /\ mem' = [mem EXCEPT !["access"] = AccessesAdd(@, UserAccess)]
            /\ wpc' = "write"
            /\ wresp' = 0
    /\ UNCHANGED <<clientVars, loginVars, storeVars>>
    /\ UNCHANGED <<ingestVars, amutex, Tokens, options, dbLists, dbConfigs,
                   dirwatchRunning, putVars, failures, hubVars, wnew, wold, wTodo>>

\* 648-661: the access is removed; when it was not in the list the handler
\* returns without writing a status
UserRemoveRequest(t, decoded) ==
    /\ ~crashed
    /\ wpc = "idle"
    /\ IF ~ValidateToken(t)
       THEN wresp' = 401 /\ UNCHANGED <<wpc, mem>>
       ELSE IF ~decoded
       THEN wresp' = 400 /\ UNCHANGED <<wpc, mem>>
       ELSE IF UserAccess \notin mem["access"]
       THEN wresp' = 200 /\ UNCHANGED <<wpc, mem>>
       ELSE /\ mem' = [mem EXCEPT !["access"] = AccessesRemove(@, UserAccess)]
            /\ wpc' = "write"
            /\ wresp' = 0
    /\ UNCHANGED <<clientVars, loginVars, storeVars>>
    /\ UNCHANGED <<ingestVars, amutex, Tokens, options, dbLists, dbConfigs,
                   dirwatchRunning, putVars, failures, hubVars, wnew, wold, wTodo>>

\* 623, 662: admin.Controller.Accesses.Write(db)
UserWrite(ok) ==
    /\ ~crashed
    /\ wpc = "write"
    /\ ~ok => failures < MaxFailures
    /\ failures' = IF ok THEN failures ELSE failures + 1
    /\ ListWrite("access", ok)
    /\ IF ok THEN wpc' = "read" /\ UNCHANGED wresp
       ELSE wpc' = "idle" /\ wresp' = 417
    /\ UNCHANGED <<clientVars, loginVars, storeVars>>
    /\ UNCHANGED <<ingestVars, amutex, Tokens, mem, options, dbConfigs,
                   dirwatchRunning, putVars, hubVars, wnew, wold, wTodo>>

\* 624, 663: admin.Controller.Accesses.Read(db)
UserRead(ok) ==
    /\ ~crashed
    /\ wpc = "read"
    /\ ~ok => failures < MaxFailures
    /\ failures' = IF ok THEN failures ELSE failures + 1
    /\ ListRead("access", ok)
    /\ IF ok THEN wpc' = "broadcast" /\ UNCHANGED wresp
       ELSE wpc' = "idle" /\ wresp' = 417
    /\ UNCHANGED <<clientVars, loginVars, storeVars>>
    /\ UNCHANGED <<ingestVars, amutex, Tokens, options, dbLists, dbConfigs,
                   dirwatchRunning, putVars, hubVars, wnew, wold, wTodo>>

\* 70-72: Admin.BroadcastConfig starts to range over admin.Conns
BroadcastConfigBegin ==
    /\ ~crashed
    /\ wpc = "broadcast"
    /\ wpc' = "range"
    /\ wTodo' = Conns
    /\ UNCHANGED <<clientVars, loginVars, storeVars>>
    /\ UNCHANGED <<ingestVars, amutex, Tokens, cfgVars, dirwatchRunning,
                   putVars, failures, hubVars, wnew, wold, wresp>>

\* 73: conn.WriteMessage(websocket.TextMessage, b), its error ignored
BroadcastConfigWrite(c) ==
    /\ ~crashed
    /\ wpc = "range"
    /\ c \in wTodo
    /\ wTodo' = wTodo \ {c}
    /\ UNCHANGED <<clientVars, loginVars, storeVars>>
    /\ UNCHANGED <<ingestVars, amutex, Tokens, cfgVars, dirwatchRunning,
                   putVars, failures, hubVars, wpc, wnew, wold, wresp>>

\* 74-76, 626, 665: the range ends and the handler answers 200
BroadcastConfigEnd ==
    /\ ~crashed
    /\ wpc = "range"
    /\ wTodo = {}
    /\ wpc' = "idle"
    /\ wresp' = 200
    /\ UNCHANGED <<clientVars, loginVars, storeVars>>
    /\ UNCHANGED <<ingestVars, amutex, Tokens, cfgVars, dirwatchRunning,
                   putVars, failures, hubVars, wnew, wold, wTodo>>

\* a JSON value that is not a string, or a missing key
NotAString == "<not a string>"

CurrentPasswords == {NotAString, DefaultAdminPassword, "newpw", "wrong"}

NewPasswords == {NotAString, "", DefaultAdminPassword, "newpw"}

\* the password requests: one without a valid token, one that cannot be
\* decoded, and every combination of passwords
PasswordRequests ==
    {[t |-> BadToken, decoded |-> TRUE, currentPassword |-> NotAString,
      newPassword |-> "newpw", hashed |-> TRUE],
     [t |-> TokenA, decoded |-> FALSE, currentPassword |-> NotAString,
      newPassword |-> "newpw", hashed |-> TRUE],
     [t |-> TokenA, decoded |-> TRUE, currentPassword |-> NotAString,
      newPassword |-> "newpw", hashed |-> FALSE]}
    \cup
    [t : {TokenA}, decoded : {TRUE}, currentPassword : CurrentPasswords,
     newPassword : NewPasswords, hashed : {TRUE}]

\* 499-529, 84-97: PasswordHandler up to the point where ChangePassword
\* has hashed the new password; wold records the password and the flag at
\* the call of ChangePassword
PasswordRequest(t, decoded, currentPassword, newPassword, hashed) ==
    /\ ~crashed
    /\ wpc = "idle"
    /\ IF ~ValidateToken(t)
       THEN wresp' = 401 /\ UNCHANGED <<wpc, wnew, wold>>
       ELSE IF ~decoded \/ newPassword = NotAString
       THEN wresp' = 400 /\ UNCHANGED <<wpc, wnew, wold>>
       ELSE IF \/ newPassword = ""
               \/ /\ currentPassword # NotAString
                  /\ ~CompareHashAndPassword(options.adminPassword,
                                             currentPassword)
               \/ ~hashed
       THEN /\ wresp' = 417
            /\ wold' = PasswordOf(options)
            /\ UNCHANGED <<wpc, wnew>>
       ELSE /\ wpc' = "pwdset"
            /\ wnew' = newPassword
            /\ wold' = PasswordOf(options)
            /\ wresp' = 0
    /\ UNCHANGED <<clientVars, loginVars, storeVars>>
    /\ UNCHANGED <<ingestVars, amutex, Tokens, cfgVars, dirwatchRunning,
                   putVars, failures, hubVars, wTodo>>

\* 99-100: the in-memory password and the need-change flag are set
ChangePasswordSet ==
    /\ ~crashed
    /\ wpc = "pwdset"
    /\ options' =
        [options EXCEPT
            !.adminPassword = Hash(wnew),
            !.adminPasswordNeedChange = (wnew = DefaultAdminPassword)]
    /\ wpc' = "pwdwrite"
    /\ UNCHANGED <<clientVars, loginVars, storeVars>>
    /\ UNCHANGED <<ingestVars, amutex, Tokens, mem, dbLists, dbConfigs,
                   dirwatchRunning, putVars, failures, hubVars, wnew, wold, wTodo,
                   wresp>>

\* 102-104: admin.Controller.Options.Write(db)
ChangePasswordWrite(n) ==
    /\ ~crashed
    /\ wpc = "pwdwrite"
    /\ OptionsWriteFails(n) => failures < MaxFailures
    /\ failures' = IF OptionsWriteFails(n) THEN failures + 1 ELSE failures
    /\ dbConfigs' = OptionsWrite(options, dbConfigs, n)
    /\ IF OptionsWriteFails(n) THEN wpc' = "idle" /\ wresp' = 417
       ELSE wpc' = "pwdread" /\ UNCHANGED wresp
    /\ UNCHANGED <<clientVars, loginVars, storeVars>>
    /\ UNCHANGED <<ingestVars, amutex, Tokens, mem, options, dbLists,
                   dirwatchRunning, putVars, hubVars, wnew, wold, wTodo>>

\* 106-112, 531-532: admin.Controller.Options.Read(db), which returns nil
\* whatever rows it failed to read; the handler answers 200
ChangePasswordRead(lost) ==
    /\ ~crashed
    /\ wpc = "pwdread"
    /\ failures + Cardinality(lost) <= MaxFailures
    /\ failures' = failures + Cardinality(lost)
    /\ options' = OptionsRead(options, dbConfigs, lost)
    /\ wpc' = "idle"
    /\ wresp' = 200
    /\ UNCHANGED <<clientVars, loginVars, storeVars>>
    /\ UNCHANGED <<ingestVars, amutex, Tokens, mem, dbLists, dbConfigs,
                   dirwatchRunning, putVars, hubVars, wnew, wold, wTodo>>

UserStep ==
    \/ \E t \in {TokenA, BadToken}, decoded \in BOOLEAN :
          UserAddRequest(t, decoded)
    \/ \E t \in {TokenA, BadToken}, decoded \in BOOLEAN :
          UserRemoveRequest(t, decoded)
    \/ \E ok \in BOOLEAN : UserWrite(ok)
    \/ \E ok \in BOOLEAN : UserRead(ok)
    \/ BroadcastConfigBegin
    \/ \E c \in ConnIds : BroadcastConfigWrite(c)
    \/ BroadcastConfigEnd

PasswordStep ==
    \/ \E r \in PasswordRequests :
          PasswordRequest(r.t, r.decoded, r.currentPassword, r.newPassword,
                          r.hashed)
    \/ ChangePasswordSet
    \/ \E n \in 0..OptionsWriteStages : ChangePasswordWrite(n)
    \/ \E lost \in SUBSET ConfigRows : ChangePasswordRead(lost)

\* one configuration PUT and the password changes
NextPutPassword ==
    \/ PutStep(1)
    \/ PasswordStep

SpecPutPassword == Init /\ [][NextPutPassword]_vars

\* the server with one admin websocket connection registered
InitWriters ==
    \E c \in ConnIds :
        /\ gate = {}
        /\ inflight = <<>>
        /\ ingesting = FALSE
        /\ stored = <<>>
        /\ amutex = {}
        /\ Tokens = <<TokenA>>
        /\ mem = InitLists
        /\ dbLists = InitLists
        /\ options = InitOptions
        /\ dbConfigs = InitConfigs
        /\ dirwatchRunning = TRUE
        /\ pc = [p \in Puts |-> "idle"]
        /\ body = [p \in Puts |-> NoBody]
        /\ sec = [p \in Puts |-> 0]
        /\ response = [p \in Puts |-> 0]
        /\ emitted = [p \in Puts |-> 0]
        /\ started = [p \in Puts |-> 0]
        /\ order = <<>>
        /\ failures = 0
        /\ Conns = {c}
        /\ hubpc = "select"
        /\ hubTodo = {}
        /\ hubConn = {}
        /\ delivered = {}
        /\ connpc = [d \in ConnIds |-> IF d = c THEN "reading" ELSE "none"]
        /\ transport = [d \in ConnIds |-> "open"]
        /\ crashed = FALSE
        /\ wpc = "idle"
        /\ wnew = ""
        /\ wold = PasswordOf(InitOptions)
        /\ wTodo = {}
        /\ wresp = 0
        /\ ClientInit
        /\ LoginInit
        /\ StoreInit

NextWriters ==
    \/ UserStep
    \/ PasswordStep
    \/ IngestStep

\* the administrative writers and the ingestion pipeline
SpecWriters == InitWriters /\ [][NextWriters]_vars

(***************************************************************************)
(* The admin websocket connections (ConfigHandler, admin.go 116-143) and   *)
(* the hub goroutine started by Admin.Start (admin.go 571-596).            *)
(* admin.Broadcast, admin.Register and admin.Unregister are unbuffered     *)
(* channels: a send completes in the step in which the hub receives it.    *)
(***************************************************************************)
\* 116-124: the request is upgraded; the handler sends the connection to
\* admin.Register and waits for the hub to receive it
ConnUpgrade(c) ==
    /\ ~crashed
    /\ connpc[c] = "none"
    /\ connpc' = [connpc EXCEPT ![c] = "register"]
    /\ UNCHANGED <<clientVars, loginVars, storeVars>>
    /\ UNCHANGED <<ingestVars, amutex, Tokens, cfgVars, dirwatchRunning,
                   putVars, failures, Conns, hubpc, hubTodo, hubConn,
                   delivered, transport, crashed, writerVars>>

\* the peer of an open connection goes away
ConnBreak(c) ==
    /\ ~crashed
    /\ connpc[c] # "none"
    /\ transport[c] = "open"
    /\ transport' = [transport EXCEPT ![c] = "broken"]
    /\ UNCHANGED <<clientVars, loginVars, storeVars>>
    /\ UNCHANGED <<ingestVars, amutex, Tokens, cfgVars, dirwatchRunning,
                   putVars, failures, Conns, hubpc, hubTodo, hubConn,
                   delivered, connpc, crashed, writerVars>>

\* 129-138: the reader goroutine reads a message: it leaves its loop when
\* ReadMessage fails or the message read is not a valid token, and goes on
\* reading after a valid token ("validated")
ConnRead(c, msg) ==
    /\ ~crashed
    /\ connpc[c] \in {"reading", "validated"}
    /\ connpc' = [connpc EXCEPT ![c] =
                    IF transport[c] = "open" /\ ValidateToken(msg)
                    THEN "validated" ELSE "unregister"]
    /\ UNCHANGED <<clientVars, loginVars, storeVars>>
    /\ UNCHANGED <<ingestVars, amutex, Tokens, cfgVars, dirwatchRunning,
                   putVars, failures, Conns, hubpc, hubTodo, hubConn,
                   delivered, transport, crashed, writerVars>>

\* 142: the reader goroutine writes the close message and ends
ConnClose(c) ==
    /\ ~crashed
    /\ connpc[c] = "closing"
    /\ connpc' = [connpc EXCEPT ![c] = "done"]
    /\ UNCHANGED <<clientVars, loginVars, storeVars>>
    /\ UNCHANGED <<ingestVars, amutex, Tokens, cfgVars, dirwatchRunning,
                   putVars, failures, Conns, hubpc, hubTodo, hubConn,
                   delivered, transport, crashed, writerVars>>

\* The hub adds or removes connection c while BroadcastConfig ranges over
\* admin.Conns in a handler goroutine: a data race on a Go map.  The
\* runtime may throw "concurrent map iteration and map write", or the
\* range goes on and may or may not visit c.
RegistryChange(c) ==
    IF wpc = "range"
    THEN /\ crashed' \in BOOLEAN
         /\ wTodo' \in {wTodo \cup {c}, wTodo \ {c}}
    ELSE UNCHANGED <<crashed, wTodo>>

\* 586-587: case conn := <-admin.Register
HubRegister(c) ==
    /\ ~crashed
    /\ hubpc = "select"
    /\ connpc[c] = "register"
    /\ Conns' = Conns \cup {c}
    /\ connpc' = [connpc EXCEPT ![c] = "reading"]
    /\ RegistryChange(c)
    /\ UNCHANGED <<clientVars, loginVars, storeVars>>
    /\ UNCHANGED <<ingestVars, amutex, Tokens, cfgVars, dirwatchRunning,
                   putVars, failures, hubpc, hubTodo, hubConn, delivered,
                   transport, wpc, wnew, wold, wresp>>

\* 589-593: case conn := <-admin.Unregister, sent by the reader goroutine
\* of c (140)
HubUnregister(c) ==
    /\ ~crashed
    /\ hubpc = "select"
    /\ connpc[c] = "unregister"
    /\ connpc' = [connpc EXCEPT ![c] = "closing"]
    /\ IF c \in Conns
       THEN /\ Conns' = Conns \ {c}
            /\ transport' = [transport EXCEPT ![c] = "closed"]
            /\ RegistryChange(c)
       ELSE UNCHANGED <<Conns, transport, crashed, wTodo>>
    /\ UNCHANGED <<clientVars, loginVars, storeVars>>
    /\ UNCHANGED <<ingestVars, amutex, Tokens, cfgVars, dirwatchRunning,
                   putVars, failures, hubpc, hubTodo, hubConn, delivered,
                   wpc, wnew, wold, wresp>>

\* 574-579: case data, ok := <-admin.Broadcast; the range over admin.Conns
\* starts
HubBroadcast ==
    /\ ~crashed
    /\ hubpc = "select"
    /\ hubpc' = IF Conns = {} THEN "select" ELSE "broadcast"
    /\ hubTodo' = Conns
    /\ delivered' = {}
    /\ UNCHANGED <<clientVars, loginVars, storeVars>>
    /\ UNCHANGED <<ingestVars, amutex, Tokens, cfgVars, dirwatchRunning,
                   putVars, failures, Conns, hubConn, connpc, transport,
                   crashed, writerVars>>

\* 580-583: err := conn.WriteMessage(...); a write to a closed connection
\* fails, a write to a connection whose peer is gone may fail; when it
\* fails the hub sends the connection to admin.Unregister
HubBroadcastWrite(c, err) ==
    /\ ~crashed
    /\ hubpc = "broadcast"
    /\ c \in hubTodo
    /\ err => transport[c] # "open"
    /\ transport[c] = "closed" => err
    /\ hubTodo' = hubTodo \ {c}
    /\ IF err
       THEN /\ hubpc' = "unregister"
            /\ hubConn' = {c}
            /\ UNCHANGED delivered
       ELSE /\ hubpc' = IF hubTodo' = {} THEN "select" ELSE "broadcast"
            /\ delivered' = delivered \cup {c}
            /\ UNCHANGED hubConn
    /\ UNCHANGED <<clientVars, loginVars, storeVars>>
    /\ UNCHANGED <<ingestVars, amutex, Tokens, cfgVars, dirwatchRunning,
                   putVars, failures, Conns, connpc, transport, crashed,
                   writerVars>>

\* the goroutines ready to receive from admin.Unregister: the hub in its
\* select, and nobody else (589 is the only receive)
UnregisterReceivers == IF hubpc = "select" THEN {"hub"} ELSE {}

\* 582: admin.Unregister <- conn, sent by the hub goroutine itself: the
\* send completes when another goroutine receives it, after which the hub
\* goes on with its range.  No state enables it, so it is no disjunct of
\* HubStep: a hub that reaches "unregister" stays there.
HubSendUnregister ==
    /\ ~crashed
    /\ hubpc = "unregister"
    /\ UnregisterReceivers \ {"hub"} # {}
    /\ hubpc' = IF hubTodo = {} THEN "select" ELSE "broadcast"
    /\ hubConn' = {}
    /\ UNCHANGED <<clientVars, loginVars, storeVars>>
    /\ UNCHANGED <<ingestVars, amutex, Tokens, cfgVars, dirwatchRunning,
                   putVars, failures, Conns, hubTodo, delivered, connpc,
                   transport, crashed, writerVars>>

HubStep ==
    \/ \E c \in ConnIds : HubRegister(c)
    \/ \E c \in ConnIds : HubUnregister(c)
    \/ HubBroadcast
    \/ \E c \in ConnIds, err \in BOOLEAN : HubBroadcastWrite(c, err)

ConnStep ==
    \/ \E c \in ConnIds : ConnUpgrade(c)
    \/ \E c \in ConnIds : ConnBreak(c)
    \/ \E c \in ConnIds, msg \in {TokenA, BadToken} : ConnRead(c, msg)
    \/ \E c \in ConnIds : ConnClose(c)

NextHub ==
    \/ HubStep
    \/ ConnStep
    \/ UserStep

\* the hub, the admin connections and the user handlers
SpecHub == Init /\ [][NextHub]_vars

\* the hub and every goroutine blocked on it eventually take their step
\* (a select with several ready cases picks one at random, so a case that
\* is ready again and again is eventually picked)
FairSpecHub ==
    /\ SpecHub
    /\ WF_vars(HubStep)
    /\ WF_vars(UserStep)
    /\ \A c \in ConnIds :
        /\ WF_vars(ConnClose(c))
        /\ SF_vars(HubRegister(c))
        /\ SF_vars(HubUnregister(c))

(***************************************************************************)
(* The Duplicate Detector and the Call Store (spec 4.3, 4.4).  Sources     *)
(* hand their normalized candidates to the one ingestion pipeline, which   *)
(* takes them one at a time.                                               *)
(***************************************************************************)
\* the seconds the model runs for
MaxTime == 3

\* candidates that may wait for the detector
MaxCandidates == 2

\* candidates the detector sees in a run
MaxProcessed == 3

\* duplicateDetectionTimeFrame, in seconds
TimeFrame == 1

Sources == {1, 2}

\* (system, talkgroup, content fingerprint)
Fingerprints == {<<1, 100, "X">>, <<1, 100, "Y">>}

\* a source submits a candidate now
StoreSubmit(src, fp) ==
    /\ Len(candidates) < MaxCandidates
    /\ Len(processed) + Len(candidates) < MaxProcessed
    /\ candidates' = Append(candidates, [source |-> src, key |-> fp, t |-> now])
    /\ UNCHANGED <<now, window, calls, lastId, processed,
                   disableDuplicateDetection>>
    /\ UNCHANGED <<adminVars, clientVars, loginVars>>

\* 4.3: the entries still inside the time frame of a candidate of time t
LiveEntries(w, t) == {e \in w : t - e.t <= TimeFrame}

\* a detector that compares the system and the talkgroup only
IsDuplicate_IgnoresContent(w, c) ==
    \E e \in LiveEntries(w, c.t) : e.key[1] = c.key[1] /\ e.key[2] = c.key[2]

\* 4.3: the candidate matches an entry accepted within the time frame
IsDuplicate(w, c) == \E e \in LiveEntries(w, c.t) : e.key = c.key

\* an identifier taken from the number of calls the store holds
NewId_FromCount(last, cs) == Len(cs) + 1

\* 4.4: Store(call) -> id
NewId(last, cs) == last + 1

\* 4.3, 4.4: the pipeline takes the first candidate: the detector checks it
\* and inserts its entry in one step, and the store gives an accepted
\* candidate its identifier
StoreIngest ==
    /\ candidates # <<>>
    /\ LET c == Head(candidates)
           dup == ~disableDuplicateDetection /\ IsDuplicate(window, c)
           id == NewId(lastId, calls)
       IN  /\ candidates' = Tail(candidates)
           /\ IF dup
              THEN /\ processed' = Append(processed, [call |-> c, id |-> 0])
                   /\ window' = LiveEntries(window, c.t)
                   /\ UNCHANGED <<calls, lastId>>
              ELSE /\ processed' = Append(processed, [call |-> c, id |-> id])
                   /\ window' = LiveEntries(window, c.t)
                                   \cup {[key |-> c.key, t |-> c.t]}
                   /\ calls' = Append(calls, [call |-> c, id |-> id])
                   /\ lastId' = id
    /\ UNCHANGED <<now, disableDuplicateDetection>>
    /\ UNCHANGED <<adminVars, clientVars, loginVars>>

\* 4.4: Delete(olderThan), the pruning of the oldest call
StoreDelete ==
    /\ calls # <<>>
    /\ calls' = Tail(calls)
    /\ UNCHANGED <<now, candidates, window, lastId, processed,
                   disableDuplicateDetection>>
    /\ UNCHANGED <<adminVars, clientVars, loginVars>>

\* a second passes
StoreTick ==
    /\ now < MaxTime
    /\ now' = now + 1
    /\ UNCHANGED <<candidates, window, calls, lastId, processed,
                   disableDuplicateDetection>>
    /\ UNCHANGED <<adminVars, clientVars, loginVars>>

\* options.go 32: the detector is disabled before the first submission
StoreDisableDetection ==
    /\ ~disableDuplicateDetection
    /\ now = 0 /\ candidates = <<>> /\ processed = <<>>
    /\ disableDuplicateDetection' = TRUE
    /\ UNCHANGED <<now, candidates, window, calls, lastId, processed>>
    /\ UNCHANGED <<adminVars, clientVars, loginVars>>

NextStore ==
    \/ StoreDisableDetection
    \/ \E src \in Sources, fp \in Fingerprints : StoreSubmit(src, fp)
    \/ StoreIngest
    \/ StoreDelete
    \/ StoreTick

SpecStore == Init /\ [][NextStore]_vars

(***************************************************************************)
(* Login and logout (admin.go).  The uuid of a token is its number in the  *)
(* order of issue.  A request is handled in one step.                      *)
(***************************************************************************)
\* logins that issue a token
MaxLogins == 7

\* attempts counted for one address
MaxAttempts == 5

\* 58: AttemptsMax: uint(3)
AttemptsMax == 3

\* 59: time.Duration(time.Duration.Minutes(10)): the minutes in 10
\* nanoseconds, a float64 below 1, converted to a Duration
AttemptsMaxDelay == 0

\* 438: the tokens the list holds at most
TokensMax == 5

LoginPasswords == {NotAString, "", DefaultAdminPassword, "wrong"}

\* the tokens a request may carry
AllTokens == {SignedToken(id, "s3cret") : id \in 1..MaxLogins} \cup {BadToken}

\* the list after a login that evicts no token
WithToken_Unbounded(tokens, sToken) == Append(tokens, sToken)

\* 438-442: the list after the login that issued sToken
WithToken(tokens, sToken) ==
    IF Len(tokens) < TokensMax THEN Append(tokens, sToken)
    ELSE Append(Tail(tokens), sToken)

\* the login handler without the limit on the attempts of an address
Login_NoAttemptLimit(addr, decoded, password, issued) ==
    /\ nextId <= MaxLogins
    /\ Attempts[addr] < MaxAttempts
    /\ LET count == Attempts[addr] + 1
           sToken == SignedToken(nextId, options.secret)
           answer(status) ==
               lastReq' = [op |-> "login", status |-> status,
                           t |-> IF status = 200 THEN sToken ELSE BadToken]
       IN  IF ~decoded
           THEN answer(400) /\ UNCHANGED <<Tokens, Attempts, nextId>>
           ELSE IF \/ password \in {NotAString, ""}
                   \/ ~CompareHashAndPassword(options.adminPassword, password)
           THEN /\ answer(401)
                /\ Attempts' = [Attempts EXCEPT ![addr] = count]
                /\ UNCHANGED <<Tokens, nextId>>
           ELSE IF ~issued
           THEN /\ answer(417)
                /\ Attempts' = [Attempts EXCEPT ![addr] = count]
                /\ UNCHANGED <<Tokens, nextId>>
           ELSE /\ answer(200)
                /\ Tokens' = WithToken(Tokens, sToken)
                /\ nextId' = nextId + 1
                /\ Attempts' = [a \in RemoteAddrs |-> 0]
    /\ UNCHANGED <<ingestVars, amutex, cfgVars, dirwatchRunning, putVars,
                   failures, hubVars, writerVars, clientVars, storeVars>>

\* 372-464: LoginHandler, POST.  No time has passed between the update of
\* attempt.Date (394) and the test of 397; when the attempts are cleaned
\* (453-457) time has passed since every Date.  issued is FALSE when
\* uuid.NewRandom or SignedString fails.
Login(addr, decoded, password, issued) ==
    /\ nextId <= MaxLogins
    /\ Attempts[addr] < MaxAttempts
    /\ LET count == Attempts[addr] + 1
           sToken == SignedToken(nextId, options.secret)
           answer(status) ==
               lastReq' = [op |-> "login", status |-> status,
                           t |-> IF status = 200 THEN sToken ELSE BadToken]
       IN  IF ~decoded
           THEN answer(400) /\ UNCHANGED <<Tokens, Attempts, nextId>>
           ELSE IF count > AttemptsMax \/ 0 < AttemptsMaxDelay
           THEN /\ answer(401)
                /\ Attempts' = [Attempts EXCEPT ![addr] = count]
                /\ UNCHANGED <<Tokens, nextId>>
           ELSE IF \/ password \in {NotAString, ""}
                   \/ ~CompareHashAndPassword(options.adminPassword, password)
           THEN /\ answer(401)
                /\ Attempts' = [Attempts EXCEPT ![addr] = count]
                /\ UNCHANGED <<Tokens, nextId>>
           ELSE IF ~issued
           THEN /\ answer(417)
                /\ Attempts' = [Attempts EXCEPT ![addr] = count]
                /\ UNCHANGED <<Tokens, nextId>>
           ELSE /\ answer(200)
                /\ Tokens' = WithToken(Tokens, sToken)
                /\ nextId' = nextId + 1
                /\ Attempts' = [a \in RemoteAddrs |-> 0]
    /\ UNCHANGED <<ingestVars, amutex, cfgVars, dirwatchRunning, putVars,
                   failures, hubVars, writerVars, clientVars, storeVars>>

\* 474-478: the range over admin.Tokens from index i on.  arr is the array
\* under the slice the range started with and len the length
\* admin.Tokens has now; the append of 476 moves the elements after i down
\* in that array, and admin.Tokens[k+1:] panics once k+1 is above len.
RECURSIVE LogoutRange(_, _, _, _)

\* a range that finds the token and leaves it in the list
LogoutRange_KeepsToken(arr, len, i, t) == [tokens |-> arr, panic |-> FALSE]

LogoutRange(arr, len, i, t) ==
    IF i > Len(arr) THEN [tokens |-> SubSeq(arr, 1, len), panic |-> FALSE]
    ELSE IF arr[i] # t THEN LogoutRange(arr, len, i + 1, t)
    ELSE IF i > len THEN [tokens |-> SubSeq(arr, 1, len), panic |-> TRUE]
    ELSE LogoutRange([j \in 1..Len(arr) |->
                        IF j >= i /\ j < len THEN arr[j + 1] ELSE arr[j]],
                     len - 1, i + 1, t)

\* 466-484: LogoutHandler, POST; a panic leaves the request unanswered
Logout(t) ==
    /\ IF ~ValidateToken(t)
       THEN /\ lastReq' = [op |-> "logout", status |-> 401, t |-> t]
            /\ UNCHANGED Tokens
       ELSE LET r == LogoutRange(Tokens, Len(Tokens), 1, t)
            IN  /\ Tokens' = r.tokens
                /\ lastReq' = [op |-> "logout", t |-> t,
                               status |-> IF r.panic THEN 0 ELSE 200]
    /\ UNCHANGED <<Attempts, nextId>>
    /\ UNCHANGED <<ingestVars, amutex, cfgVars, dirwatchRunning, putVars,
                   failures, hubVars, writerVars, clientVars, storeVars>>

NextLogin ==
    \/ \E addr \in RemoteAddrs, decoded \in BOOLEAN,
          password \in LoginPasswords, issued \in BOOLEAN :
            Login(addr, decoded, password, issued)
    \/ \E t \in AllTokens : Logout(t)

SpecLogin == Init /\ [][NextLogin]_vars

\* the admin connections and the hub, with the logout of the token the
\* connections present
NextConns ==
    \/ NextHub
    \/ Logout(TokenA)

SpecConns == Init /\ [][NextConns]_vars

\* 146-158, 542-562: ConfigHandler, GET: the token is validated and SendConfig
\* writes the configuration, or 417 when it cannot be marshalled
ConfigGet(t, marshalled) ==
    /\ lastReq' = [op |-> "config", t |-> t,
                   status |-> IF ~ValidateToken(t) THEN 401
                              ELSE IF marshalled THEN 200 ELSE 417]
    /\ UNCHANGED <<Attempts, nextId>>
    /\ UNCHANGED <<ingestVars, amutex, Tokens, cfgVars, dirwatchRunning,
                   putVars, failures, hubVars, writerVars, clientVars,
                   storeVars>>

\* 328-370: LogsHandler, POST: the token is validated, the body decoded and
\* the logs searched; found is FALSE when the search or the marshalling
\* of its result fails
LogsSearch(t, decoded, found) ==
    /\ lastReq' = [op |-> "logs", t |-> t,
                   status |-> IF ~ValidateToken(t) THEN 401
                              ELSE IF ~decoded THEN 400
                              ELSE IF found THEN 200 ELSE 417]
    /\ UNCHANGED <<Attempts, nextId>>
    /\ UNCHANGED <<ingestVars, amutex, Tokens, cfgVars, dirwatchRunning,
                   putVars, failures, hubVars, writerVars, clientVars,
                   storeVars>>

\* the tokens the admin requests present: the token of Init and a forged one
RequestTokens == {TokenA, BadToken}

\* the admin HTTP operations other than login, with one admin websocket
\* connection registered; a configuration PUT is followed up to the
\* validation of its token and the decoding of its body (its run is the
\* subject of Spec)
NextAdmin ==
    \/ \E t \in RequestTokens, decoded \in BOOLEAN, b \in Bodies(1) :
          PutRequest(1, t, decoded, b)
    \/ UserStep
    \/ PasswordStep
    \/ \E t \in RequestTokens : Logout(t)
    \/ \E t \in RequestTokens, marshalled \in BOOLEAN : ConfigGet(t, marshalled)
    \/ \E t \in RequestTokens, decoded, found \in BOOLEAN :
          LogsSearch(t, decoded, found)

\* the server with the admin websocket connection 1 registered
InitAdmin == InitWriters /\ Conns = {1}

SpecAdmin == InitAdmin /\ [][NextAdmin]_vars

(***************************************************************************)
(* The web client, RdioScannerService (part_001).  A Livefeed Map is a     *)
(* function from system ids to functions from talkgroup ids to BOOLEAN, as *)
(* the nested objects of the service.  The operations are functions from   *)
(* the state of the service to its next state, so that an operation can    *)
(* call another one as the methods do.                                     *)
(***************************************************************************)
\* calls the queue of the client may hold
MaxQueue == 1

\* the systems and the talkgroups of the configurations
Systems == {1, 2}
Talkgroups == {1, 2}

\* the call the server has stored under an id: the first one on talkgroup
\* 1 of system 1 patched to talkgroup 2, the others on talkgroup 2 of
\* system 2 with no patch
CallOf(id) ==
    [id |-> id,
     system |-> IF id = 1 THEN 1 ELSE 2,
     talkgroup |-> IF id = 1 THEN 1 ELSE 2,
     patches |-> IF id = 1 THEN <<2>> ELSE <<>>]

\* the calls the livefeed of a session may receive
ClientCalls == {CallOf(1), CallOf(2)}

\* config.systems of the configuration messages: system 1 with one
\* talkgroup, with two, and with a second system; a message may add or
\* drop talkgroups and systems by going from one to another
Configs ==
    {(1 :> {1}),
     (1 :> {1, 2}),
     (1 :> {1, 2}) @@ (2 :> {2})}

\* the element of an optional value that is defined
The(opt) == CHOOSE x \in opt : TRUE

\* the state of the service as one record
ClientState ==
    [config |-> config,
     livefeedMap |-> livefeedMap,
     livefeedMapPriorToHoldSystem |-> livefeedMapPriorToHoldSystem,
     livefeedMapPriorToHoldTalkgroup |-> livefeedMapPriorToHoldTalkgroup,
     livefeedMode |-> livefeedMode,
     call |-> call,
     callPrevious |-> callPrevious,
     callQueue |-> callQueue,
     playbackGoesLive |-> playbackGoesLive,
     playbackList |-> playbackList,
     playbackPending |-> playbackPending,
     playbackRefreshing |-> playbackRefreshing,
     skipDelay |-> skipDelay,
     requests |-> requests]

\* the variables take the values of the record st
ClientBecomes(st) ==
    /\ config' = st.config
    /\ livefeedMap' = st.livefeedMap
    /\ livefeedMapPriorToHoldSystem' = st.livefeedMapPriorToHoldSystem
    /\ livefeedMapPriorToHoldTalkgroup' = st.livefeedMapPriorToHoldTalkgroup
    /\ livefeedMode' = st.livefeedMode
    /\ call' = st.call
    /\ callPrevious' = st.callPrevious
    /\ callQueue' = st.callQueue
    /\ playbackGoesLive' = st.playbackGoesLive
    /\ playbackList' = st.playbackList
    /\ playbackPending' = st.playbackPending
    /\ playbackRefreshing' = st.playbackRefreshing
    /\ skipDelay' = st.skipDelay
    /\ requests' = st.requests

\* m[sys][tg] is defined
HasEntry(m, sys, tg) == sys \in DOMAIN m /\ tg \in DOMAIN m[sys]

\* 693: lfm(sys, tg), livefeedMap && livefeedMap[sys] && livefeedMap[sys][tg]
Lfm(m, sys, tg) == HasEntry(m, sys, tg) /\ m[sys][tg]

\* isActive(call) looking at the talkgroup of the call only
IsActive_TalkgroupOnly(m, c) == Lfm(m, c.system, c.talkgroup)

\* 692-704: isActive(call)
IsActive(m, c) ==
    \/ Lfm(m, c.system, c.talkgroup)
    \/ \E i \in 1..Len(c.patches) : Lfm(m, c.system, c.patches[i])

\* 334-336: isAvoided(call)
IsAvoided(m, c) ==
    HasEntry(m, c.system, c.talkgroup) /\ ~m[c.system][c.talkgroup]

\* 338-342: isPatched(call)
IsPatched(m, c) ==
    /\ IsAvoided(m, c)
    /\ \E i \in 1..Len(c.patches) : Lfm(m, c.system, c.patches[i])

\* 552-570: stop()
Stop(st) ==
    IF st.call # {} THEN [st EXCEPT !.callPrevious = st.call, !.call = {}]
    ELSE st

\* 420-440: play() without argument; paused stands for livefeedPaused
Play(st, paused) ==
    IF paused \/ st.skipDelay \/ st.call # {} \/ st.callQueue = <<>> THEN st
    ELSE [st EXCEPT !.call = {Head(st.callQueue)},
                    !.callQueue = Tail(st.callQueue)]

\* the options of the searches: newest first or oldest first, the first
\* page or the second one, two calls a page
SearchOptions == [sort : {-1, 1}, offset : {0, 2}, limit : {2}]

\* a request that has no search options
NoOptions == [sort |-> 0, offset |-> 0, limit |-> 0]

\* 1045-1059: the message of a request sent to the server
Request(command, id, o) == [command |-> command, id |-> id, options |-> o]

\* 752-754: getCall(id, WebsocketCallFlag.Play)
GetCall(st, id) ==
    [st EXCEPT !.requests = @ \cup {Request("CAL", id, NoOptions)}]

\* 510-512: searchCalls(options)
SearchCalls(st, o) ==
    [st EXCEPT !.requests = @ \cup {Request("LCL", 0, o)}]

\* 544-550: startLivefeed(); the Livefeed Map it sends is no state of the
\* service
StartLivefeed(st) == [st EXCEPT !.livefeedMode = "online"]

\* 572-582: stopLivefeed()
StopLivefeed(st) ==
    Stop([st EXCEPT !.livefeedMode = "offline", !.callQueue = <<>>])

\* 584-594: stopPlaybackMode()
StopPlaybackMode(st) ==
    Stop([st EXCEPT !.livefeedMode = "offline",
                    !.playbackRefreshing = FALSE,
                    !.callQueue = <<>>])

\* livefeed() going live when it leaves the playback mode
Livefeed_PlaybackGoesOnline(st) ==
    IF st.livefeedMode = "offline" THEN StartLivefeed(st)
    ELSE IF st.livefeedMode = "online" THEN StopLivefeed(st)
    ELSE StartLivefeed(StopPlaybackMode(st))

\* 344-354: livefeed()
Livefeed(st) ==
    IF st.livefeedMode = "offline" THEN StartLivefeed(st)
    ELSE IF st.livefeedMode = "online" THEN StopLivefeed(st)
    ELSE StopPlaybackMode(st)

\* 908: results.findIndex((call) => call.id === this.callPrevious?.id),
\* counted from 1, and 0 when no call of the list has the id
IndexOf(results, previous) ==
    LET found == {i \in 1..Len(results) :
                    \E c \in previous : results[i].id = c.id}
    IN  IF found = {} THEN 0 ELSE CHOOSE i \in found : \A j \in found : i <= j

RECURSIVE LoadAndPlay(_, _, _)
RECURSIVE HoldSystem(_, _)
RECURSIVE HoldTalkgroup(_, _)

\* 916-926, 948-958: the end of the list has been played: the list is
\* asked again once, and the playback mode is left at the next end
EndOfPlayback(st, o) ==
    IF st.playbackRefreshing
    THEN IF st.playbackGoesLive THEN StartLivefeed(StopPlaybackMode(st))
         ELSE StopPlaybackMode(st)
    ELSE SearchCalls([st EXCEPT !.playbackRefreshing = TRUE], o)

\* 903-964: playbackNextCall(); reading the id of a call that an empty
\* list has not throws a TypeError, which ends the method
PlaybackNextCall(st, paused) ==
    IF \/ st.call # {}
       \/ st.livefeedMode # "playback"
       \/ st.playbackList = {}
       \/ st.playbackPending # {}
    THEN st
    ELSE LET list == The(st.playbackList)
             o == list.options
             results == list.results
             n == Len(results)
             index == IndexOf(results, st.callPrevious)
         IN  IF n = 0 THEN st
             ELSE IF o.sort = -1
             THEN IF index = 0 THEN LoadAndPlay(st, results[n].id, paused)
                  ELSE IF index = 1
                  THEN IF o.offset < o.limit THEN EndOfPlayback(st, o)
                       ELSE SearchCalls(st,
                               [o EXCEPT !.offset = o.offset - o.limit])
                  ELSE LoadAndPlay(st, results[index - 1].id, paused)
             ELSE IF index = 0 THEN LoadAndPlay(st, results[1].id, paused)
                  ELSE IF index = n
                  THEN IF o.offset < list.count - o.limit
                       THEN SearchCalls(st,
                               [o EXCEPT !.offset = o.offset + o.limit])
                       ELSE EndOfPlayback(st, o)
                  ELSE LoadAndPlay(st, results[index + 1].id, paused)

\* 515-523, 535-541: the play of skip(), run at once by skip() and at
\* its end by the timer of skip({delay: true})
SkipPlay(st, paused) ==
    LET s1 == [st EXCEPT !.skipDelay = FALSE]
    IN  IF s1.livefeedMode = "playback" THEN PlaybackNextCall(s1, paused)
        ELSE Play(s1, paused)

\* 514-542: skip() without delay
Skip(st, paused) == SkipPlay(Stop(st), paused)

\* 525-532: skip({delay: true}) starts the timer
SkipDelay(st) == [Stop(st) EXCEPT !.skipDelay = TRUE]

\* 484-504: queue(call, {priority})
Queue(st, c, priority, paused) ==
    IF st.livefeedMode = "offline" THEN st
    ELSE LET s1 == [st EXCEPT !.callQueue =
                        IF priority THEN <<c>> \o @ ELSE Append(@, c)]
         IN  IF s1.call # {} \/ paused \/ s1.skipDelay THEN s1
             ELSE Play(s1, paused)

\* the flags of a call message: the call was asked by loadAndPlay(), or
\* it comes from the livefeed
CallFlags == {"p", ""}

\* 809-827: parseWebsocketMessage, a call message
ParseCall(st, c, flag, paused) ==
    IF flag = "p" /\ st.playbackPending = {c.id}
    THEN Queue([st EXCEPT !.playbackPending = {}], c, TRUE, paused)
    ELSE Queue(st, c, FALSE, paused)

\* 869-882: parseWebsocketMessage, a list of calls
ParseListCall(st, list, paused) ==
    LET s1 == [st EXCEPT !.playbackList = {list}]
    IN  IF s1.livefeedMode = "playback" THEN PlaybackNextCall(s1, paused)
        ELSE s1

\* the calls of queue q that are active under m, in their order
RECURSIVE FilterActive(_, _)
FilterActive(m, q) ==
    IF q = <<>> THEN <<>>
    ELSE IF IsActive(m, Head(q)) THEN <<Head(q)>> \o FilterActive(m, Tail(q))
    ELSE FilterActive(m, Tail(q))

\* 691-711: cleanQueue()
CleanQueue(st, paused) ==
    LET s1 == [st EXCEPT
                  !.callQueue = FilterActive(st.livefeedMap, st.callQueue)]
    IN  IF s1.call # {} /\ ~IsActive(s1.livefeedMap, The(s1.call))
        THEN Skip(s1, paused)
        ELSE s1

\* 229, 283: const call = this.call || this.callPrevious
CallOrPrevious(st) == IF st.call # {} THEN st.call ELSE st.callPrevious

\* 244-259: the map of a hold on the system of call c
HeldSystemMap(m, c) ==
    [sys \in DOMAIN m |->
        LET allOn == \A tg \in DOMAIN m[sys] : ~m[sys][tg]
        IN  [tg \in DOMAIN m[sys] |->
                IF sys = c.system THEN allOn \/ m[sys][tg] ELSE FALSE]]

\* 298-311: the map of a hold on the talkgroup of call c
HeldTalkgroupMap(m, c) ==
    [sys \in DOMAIN m |->
        [tg \in DOMAIN m[sys] |->
            IF sys = c.system THEN tg = c.talkgroup ELSE FALSE]]

\* holdSystem() saving the map of the hold instead of the map it replaces
HoldSystem_SavesHeldMap(st, paused) ==
    IF CallOrPrevious(st) = {} THEN st
    ELSE IF st.livefeedMapPriorToHoldSystem # {}
    THEN [st EXCEPT
            !.livefeedMap = The(st.livefeedMapPriorToHoldSystem),
            !.livefeedMapPriorToHoldSystem = {}]
    ELSE LET s1 == IF st.livefeedMapPriorToHoldTalkgroup # {}
                   THEN HoldTalkgroup(st, paused)
                   ELSE st
             held == HeldSystemMap(s1.livefeedMap, The(CallOrPrevious(st)))
             s2 == [s1 EXCEPT !.livefeedMapPriorToHoldSystem = {held},
                              !.livefeedMap = held]
         IN  CleanQueue(s2, paused)

\* 228-280: holdSystem()
HoldSystem(st, paused) ==
    IF CallOrPrevious(st) = {} THEN st
    ELSE IF st.livefeedMapPriorToHoldSystem # {}
    THEN [st EXCEPT
            !.livefeedMap = The(st.livefeedMapPriorToHoldSystem),
            !.livefeedMapPriorToHoldSystem = {}]
    ELSE LET s1 == IF st.livefeedMapPriorToHoldTalkgroup # {}
                   THEN HoldTalkgroup(st, paused)
                   ELSE st
             s2 == [s1 EXCEPT
                      !.livefeedMapPriorToHoldSystem = {s1.livefeedMap},
                      !.livefeedMap =
                          HeldSystemMap(s1.livefeedMap,
                                        The(CallOrPrevious(st)))]
         IN  CleanQueue(s2, paused)

\* holdTalkgroup() engaging without ending a hold on a system
HoldTalkgroup_KeepsHoldSystem(st, paused) ==
    IF CallOrPrevious(st) = {} THEN st
    ELSE IF st.livefeedMapPriorToHoldTalkgroup # {}
    THEN [st EXCEPT
            !.livefeedMap = The(st.livefeedMapPriorToHoldTalkgroup),
            !.livefeedMapPriorToHoldTalkgroup = {}]
    ELSE CleanQueue([st EXCEPT
                        !.livefeedMapPriorToHoldTalkgroup = {st.livefeedMap},
                        !.livefeedMap =
                            HeldTalkgroupMap(st.livefeedMap,
                                             The(CallOrPrevious(st)))],
                    paused)

\* 282-332: holdTalkgroup()
HoldTalkgroup(st, paused) ==
    IF CallOrPrevious(st) = {} THEN st
    ELSE IF st.livefeedMapPriorToHoldTalkgroup # {}
    THEN [st EXCEPT
            !.livefeedMap = The(st.livefeedMapPriorToHoldTalkgroup),
            !.livefeedMapPriorToHoldTalkgroup = {}]
    ELSE LET s1 == IF st.livefeedMapPriorToHoldSystem # {}
                   THEN HoldSystem(st, paused)
                   ELSE st
             s2 == [s1 EXCEPT
                      !.livefeedMapPriorToHoldTalkgroup = {s1.livefeedMap},
                      !.livefeedMap =
                          HeldTalkgroupMap(s1.livefeedMap,
                                           The(CallOrPrevious(st)))]
         IN  CleanQueue(s2, paused)

\* the rebuilt map with every talkgroup of the configuration enabled
RebuiltMap_AllTrue(cfg, m) == [sys \in DOMAIN cfg |-> [tg \in cfg[sys] |-> TRUE]]

\* 1001-1011: the map rebuilt from config.systems and the current map
RebuiltMap(cfg, m) ==
    [sys \in DOMAIN cfg |->
        [tg \in cfg[sys] |->
            IF HasEntry(m, sys, tg) THEN m[sys][tg] ELSE TRUE]]

\* 1000-1024: rebuildLivefeedMap()
RebuildLivefeedMap(st) ==
    LET new == RebuiltMap(st.config, st.livefeedMap)
    IN  IF st.livefeedMapPriorToHoldSystem # {}
        THEN [st EXCEPT !.livefeedMapPriorToHoldSystem = {new}]
        ELSE IF st.livefeedMapPriorToHoldTalkgroup # {}
        THEN [st EXCEPT !.livefeedMapPriorToHoldTalkgroup = {new}]
        ELSE [st EXCEPT !.livefeedMap = new]

\* 829-863: parseWebsocketMessage, a configuration message
ParseConfig(st, cfg, goesLive) ==
    RebuildLivefeedMap([st EXCEPT !.config = cfg,
                                  !.playbackGoesLive = goesLive])

\* 364-397: loadAndPlay(id); the call is requested from the server
LoadAndPlay(st, id, paused) ==
    IF id = 0 THEN st
    ELSE LET s1 == Stop([st EXCEPT !.skipDelay = FALSE,
                                   !.playbackPending = {id}])
             s2 == IF s1.livefeedMode # "offline" THEN s1
                   ELSE LET s3 == [s1 EXCEPT !.livefeedMode = "playback"]
                            s4 == IF s3.livefeedMapPriorToHoldSystem # {}
                                  THEN HoldSystem(s3, paused) ELSE s3
                        IN  IF s4.livefeedMapPriorToHoldTalkgroup # {}
                            THEN HoldTalkgroup(s4, paused) ELSE s4
         IN  GetCall(s2, id)

\* the status argument of avoid(): a boolean, or absent (toggle)
Statuses == {"on", "off", "toggle"}

\* typeof options.status === 'boolean' ? options.status : other
StatusOr(status, other) ==
    IF status = "on" THEN TRUE ELSE IF status = "off" THEN FALSE ELSE other

\* this.livefeedMap[sys][tg] = status or !this.livefeedMap[sys][tg], for a
\* system the map has; a talkgroup the map has not is added
SetEntry(m, sys, tg, status) ==
    [m EXCEPT ![sys] =
        [t \in DOMAIN m[sys] \cup {tg} |->
            IF t = tg THEN StatusOr(status, ~Lfm(m, sys, tg))
            ELSE m[sys][t]]]

\* the arguments of avoid(): all talkgroups (132), one talkgroup given by
\* a call or by a system and a talkgroup (139, 145), one system (151), or
\* none, which means the talkgroup of the current or previous call (158)
AvoidOptions ==
    [kind : {"all"}, all : BOOLEAN, system : {1}, talkgroup : {1},
     status : {"toggle"}]
    \cup [kind : {"all"}, all : {TRUE}, system : {1}, talkgroup : {1},
          status : {"off"}]
    \cup [kind : {"talkgroup"}, all : {FALSE}, system : Systems,
          talkgroup : Talkgroups, status : Statuses]
    \cup [kind : {"system"}, all : {FALSE}, system : Systems,
          talkgroup : {1}, status : Statuses]
    \cup [kind : {"default"}, all : {FALSE}, system : {1}, talkgroup : {1},
          status : Statuses]

\* the system whose entry avoid() reads, if any
AvoidSystem(st, o) ==
    IF o.kind \in {"talkgroup", "system"} THEN {o.system}
    ELSE IF o.kind = "default"
    THEN {c.system : c \in CallOrPrevious(st)}
    ELSE {}

\* 132-167: the map after avoid(), for a system the map has
AvoidMap(st, o) ==
    LET m == st.livefeedMap
    IN  IF o.kind = "all"
        THEN [sys \in DOMAIN m |->
                [tg \in DOMAIN m[sys] |-> StatusOr(o.status, o.all)]]
        ELSE IF o.kind = "talkgroup"
        THEN SetEntry(m, o.system, o.talkgroup, o.status)
        ELSE IF o.kind = "system"
        THEN [m EXCEPT ![o.system] =
                [tg \in DOMAIN m[o.system] |->
                    StatusOr(o.status, ~m[o.system][tg])]]
        ELSE IF CallOrPrevious(st) # {}
        THEN SetEntry(m, The(CallOrPrevious(st)).system,
                      The(CallOrPrevious(st)).talkgroup, o.status)
        ELSE m

\* 143-165: reading this.livefeedMap[sys][tg] of a system the map has not
\* throws a TypeError
AvoidThrows(st, o) == AvoidSystem(st, o) \ DOMAIN st.livefeedMap # {}

\* 123-188: avoid(options); a TypeError ends the method
Avoid(st, o, paused) ==
    LET s0 == [st EXCEPT !.livefeedMapPriorToHoldSystem = {},
                         !.livefeedMapPriorToHoldTalkgroup = {}]
    IN  IF AvoidThrows(s0, o)
        THEN s0
        ELSE LET s1 == [s0 EXCEPT !.livefeedMap = AvoidMap(s0, o)]
             IN  IF s1.livefeedMode # "playback" THEN CleanQueue(s1, paused)
                 ELSE s1

\* the group of a talkgroup of the configuration: every talkgroup id is a
\* group of its own, in every system
GroupOf(sys, tg) == tg

\* the categories toggleCategory() may be given
Categories == [label : Talkgroups, status : {"on", "off", "partial"}]

\* the elements of the finite set of integers S in increasing order
RECURSIVE Ascending(_)
Ascending(S) ==
    IF S = {} THEN <<>>
    ELSE LET x == CHOOSE y \in S : \A z \in S : y <= z
         IN  <<x>> \o Ascending(S \ {x})

\* 609-616: the talkgroups of the group in one system
RECURSIVE ToggleTalkgroups(_, _, _, _)
ToggleTalkgroups(m, sys, tgs, status) ==
    IF tgs = <<>> THEN m
    ELSE ToggleTalkgroups(
            SetEntry(m, sys, Head(tgs), IF status THEN "on" ELSE "off"),
            sys, Tail(tgs), status)

\* 608-617: config.systems.forEach; the result is the map and whether the
\* loop threw at a system the map has not
RECURSIVE ToggleSystems(_, _, _, _, _)
ToggleSystems(m, cfg, syss, label, status) ==
    IF syss = <<>> THEN [map |-> m, thrown |-> FALSE]
    ELSE LET sys == Head(syss)
             tgs == {tg \in cfg[sys] : GroupOf(sys, tg) = label}
         IN  IF tgs = {}
             THEN ToggleSystems(m, cfg, Tail(syss), label, status)
             ELSE IF sys \notin DOMAIN m
             THEN [map |-> m, thrown |-> TRUE]
             ELSE ToggleSystems(
                    ToggleTalkgroups(m, sys, Ascending(tgs), status),
                    cfg, Tail(syss), label, status)

\* 606-617: the map after the loop, and whether the loop threw
Toggled(st, category) ==
    ToggleSystems(st.livefeedMap, st.config, Ascending(DOMAIN st.config),
                  category.label, category.status # "on")

\* 611, 614, 621-622: a TypeError is thrown in the loop, or by the test on
\* the call being played when the map has not its system
ToggleThrows(st, category) ==
    \/ Toggled(st, category).thrown
    \/ \E c \in st.call : c.system \notin DOMAIN Toggled(st, category).map

\* 596-643: toggleCategory(category); a TypeError ends the method
ToggleCategory(st, category, paused) ==
    LET s0 == [st EXCEPT !.livefeedMapPriorToHoldSystem = {},
                         !.livefeedMapPriorToHoldTalkgroup = {}]
        s1 == [s0 EXCEPT !.livefeedMap = Toggled(s0, category).map]
    IN  IF ToggleThrows(s0, category) THEN s1 ELSE CleanQueue(s1, paused)

serverVars ==
    <<ingestVars, amutex, Tokens, cfgVars, dirwatchRunning, putVars,
      failures, hubVars, writerVars, loginVars, storeVars>>

\* outstanding requests a session may have
MaxRequests == 2

\* calls the server may have stored
MaxServerCalls == 3

\* 829-863: a configuration message arrives
ClientConfig(cfg, goesLive) ==
    /\ ClientBecomes(ParseConfig(ClientState, cfg, goesLive))
    /\ lastOp' = "config"
    /\ UNCHANGED <<serverCalls, serverVars>>

\* 809-827, 484-504: a call message arrives: the answer to a request of
\* loadAndPlay(), or a call of the livefeed, which the server sends to a
\* session that has sent its Livefeed Map
ClientCall(c, flag, paused) ==
    /\ flag = "p" => Request("CAL", c.id, NoOptions) \in requests
    /\ flag = "" => livefeedMode # "offline"
    \* (a call that is being played is not replaced, paused or not)
    /\ paused => call = {}
    /\ Len(callQueue) < MaxQueue
    /\ LET s1 == IF flag = "p"
                 THEN [ClientState EXCEPT
                         !.requests = @ \ {Request("CAL", c.id, NoOptions)}]
                 ELSE ClientState
       IN  ClientBecomes(ParseCall(s1, c, flag, paused))
    /\ lastOp' = "call"
    /\ UNCHANGED <<serverCalls, serverVars>>

\* the list the server answers to a search: the page of the calls it has
\* stored, which have the ids 1 to n in the order of their dates
SearchResults(o, n) ==
    LET last == IF o.offset + o.limit < n THEN o.offset + o.limit ELSE n
        size == IF last > o.offset THEN last - o.offset ELSE 0
    IN  [options |-> o,
         count |-> n,
         results |-> [i \in 1..size |->
                        CallOf(IF o.sort = -1 THEN n + 1 - (o.offset + i)
                               ELSE o.offset + i)]]

\* the operation op, marked when it makes the service leave the playback
\* mode
OrEndOfPlayback(op, st) ==
    IF livefeedMode = "playback" /\ st.livefeedMode # "playback"
    THEN op \o ", end of playback" ELSE op

\* 869-882: the list of calls of a search arrives
ClientListCall(o, paused) ==
    /\ Request("LCL", 0, o) \in requests
    /\ paused => call = {}
    /\ LET st == ParseListCall(
                    [ClientState EXCEPT
                        !.requests = @ \ {Request("LCL", 0, o)}],
                    SearchResults(o, serverCalls), paused)
       IN  /\ ClientBecomes(st)
           /\ lastOp' = OrEndOfPlayback("listCall", st)
    /\ UNCHANGED <<serverCalls, serverVars>>

\* 510-512: the user searches the calls
ClientSearchCalls(o) ==
    /\ requests = {}
    /\ ClientBecomes(SearchCalls(ClientState, o))
    /\ lastOp' = "searchCalls"
    /\ UNCHANGED <<serverCalls, serverVars>>

\* 514-542: the user skips the call being played
ClientSkip(paused) ==
    /\ call # {}
    /\ ClientBecomes(Skip(ClientState, paused))
    /\ lastOp' = OrEndOfPlayback("skip", Skip(ClientState, paused))
    /\ UNCHANGED <<serverCalls, serverVars>>

\* 461: audioSource.onended, the call being played ends
ClientEnded ==
    /\ call # {}
    /\ ClientBecomes(SkipDelay(ClientState))
    /\ lastOp' = "ended"
    /\ UNCHANGED <<serverCalls, serverVars>>

\* 527-531: the timer of skip({delay: true}) fires
ClientSkipTimer(paused) ==
    /\ skipDelay
    /\ ClientBecomes(SkipPlay(ClientState, paused))
    /\ lastOp' = OrEndOfPlayback("skipTimer", SkipPlay(ClientState, paused))
    /\ UNCHANGED <<serverCalls, serverVars>>

\* The pause matters to the four operations below only through
\* cleanQueue(), when it replaces the call being played.
PauseMatters(paused) == paused => call # {}

\* 228-280
ClientHoldSystem(paused) ==
    /\ PauseMatters(paused)
    /\ ClientBecomes(HoldSystem(ClientState, paused))
    /\ lastOp' = IF /\ livefeedMapPriorToHoldTalkgroup # {}
                    /\ CallOrPrevious(ClientState) # {}
                 THEN "holdSystem after holdTalkgroup" ELSE "holdSystem"
    /\ UNCHANGED <<serverCalls, serverVars>>

\* 282-332
ClientHoldTalkgroup(paused) ==
    /\ PauseMatters(paused)
    /\ ClientBecomes(HoldTalkgroup(ClientState, paused))
    /\ lastOp' = IF /\ livefeedMapPriorToHoldSystem # {}
                    /\ CallOrPrevious(ClientState) # {}
                 THEN "holdTalkgroup after holdSystem" ELSE "holdTalkgroup"
    /\ UNCHANGED <<serverCalls, serverVars>>

\* 123-188
ClientAvoid(o, paused) ==
    /\ PauseMatters(paused)
    /\ ClientBecomes(Avoid(ClientState, o, paused))
    /\ lastOp' = IF AvoidThrows(ClientState, o) THEN "avoid throws"
                                                ELSE "avoid"
    /\ UNCHANGED <<serverCalls, serverVars>>

\* 596-643
ClientToggleCategory(category, paused) ==
    /\ PauseMatters(paused)
    /\ ClientBecomes(ToggleCategory(ClientState, category, paused))
    /\ lastOp' = IF ToggleThrows(ClientState, category)
                  THEN "toggleCategory throws" ELSE "toggleCategory"
    /\ UNCHANGED <<serverCalls, serverVars>>

\* 364-397: the user asks for the call of an id; after stop() no call is
\* being played, so that the pause is not looked at
ClientLoadAndPlay(id) ==
    /\ id <= serverCalls
    /\ Cardinality(requests \cup {Request("CAL", id, NoOptions)})
          <= MaxRequests
    /\ ClientBecomes(LoadAndPlay(ClientState, id, FALSE))
    /\ lastOp' = "loadAndPlay"
    /\ UNCHANGED <<serverCalls, serverVars>>

\* 344-354: livefeed() starts the livefeed, stops it, or leaves the
\* playback mode
ClientLivefeed ==
    /\ ClientBecomes(Livefeed(ClientState))
    /\ lastOp' = "livefeed"
    /\ UNCHANGED <<serverCalls, serverVars>>

\* the server stores one more call
ServerStoresCall ==
    /\ serverCalls < MaxServerCalls
    /\ serverCalls' = serverCalls + 1
    /\ lastOp' = "none"
    /\ UNCHANGED <<config, livefeedMap, livefeedMapPriorToHoldSystem,
                   livefeedMapPriorToHoldTalkgroup, livefeedMode, call,
                   callPrevious, callQueue, playbackGoesLive, playbackList,
                   playbackPending, playbackRefreshing, skipDelay, requests>>
    /\ UNCHANGED serverVars

NextClient ==
    \/ \E cfg \in Configs : ClientConfig(cfg, FALSE)
    \/ \E c \in ClientCalls, flag \in CallFlags, paused \in BOOLEAN :
          ClientCall(c, flag, paused)
    \/ \E paused \in BOOLEAN : ClientSkip(paused)
    \/ \E paused \in BOOLEAN : ClientHoldSystem(paused)
    \/ \E paused \in BOOLEAN : ClientHoldTalkgroup(paused)
    \/ \E o \in AvoidOptions, paused \in BOOLEAN : ClientAvoid(o, paused)
    \/ \E category \in Categories, paused \in BOOLEAN :
          ClientToggleCategory(category, paused)
    \/ ClientLoadAndPlay(1)
    \/ ClientLivefeed

\* the service of one session and its Livefeed Map
SpecClient == Init /\ [][NextClient]_vars

\* the configuration of the sessions that play the calls of a search
PlaybackConfig == (1 :> {1, 2}) @@ (2 :> {2})

\* the searches of the user start at the first page; the later pages are
\* asked by playbackNextCall
UserSearchOptions == {o \in SearchOptions : o.offset = 0}

\* the calls the user asks to play
MaxLoadId == 2

\* the audio is not paused in this specification
NextPlayback ==
    \/ \E goesLive \in BOOLEAN : ClientConfig(PlaybackConfig, goesLive)
    \/ \E o \in UserSearchOptions : ClientSearchCalls(o)
    \/ \E o \in SearchOptions : ClientListCall(o, FALSE)
    \/ \E id \in 1..MaxLoadId : ClientLoadAndPlay(id)
    \/ \E id \in 1..MaxServerCalls : ClientCall(CallOf(id), "p", FALSE)
    \/ ClientSkip(FALSE)
    \/ ClientEnded
    \/ ClientSkipTimer(FALSE)
    \/ ClientLivefeed
    \/ ServerStoresCall

\* the service of one session that searches the calls and plays them
SpecPlayback == Init /\ [][NextPlayback]_vars

(***************************************************************************)
(* Properties of the configuration PUT and the Ingest Gate.                *)
(***************************************************************************)
\* the handler is between admin.mutex.Lock and admin.mutex.Unlock
InCritical(p) ==
    pc[p] \in {"stop", "frommap", "write", "read", "mutexunlock"}

\* C1: from the moment a PUT is about to stop the watchers until it has
\* applied its last section, it holds the Ingest Gate and the ingestion
\* goroutine is not storing a call.
C1_NoStoreDuringPut ==
    \A p \in Puts :
        (InCritical(p) \/ pc[p] = "ingestunlock") =>
            /\ gate = {PutProc(p)}
            /\ ~ingesting

\* a PUT is writing its systems section while a call waits in the queue
\* and another one has been stored before
C1_Witness ==
    \E p \in Puts :
        /\ pc[p] = "write"
        /\ SectionNames[sec[p]] = "systems"
        /\ Len(inflight) > 0
        /\ Len(stored) > 0

\* the cache of section s holds what the database holds
CacheEqualsStore(s) ==
    IF s = "options" THEN OptionsJson(options) = dbConfigs.options
    ELSE mem[s] = dbLists[s]

\* C2: when a PUT is about to release the Ingest Gate, the cache of every
\* section of its body equals what the database holds for that section.
C2_CachesEqualStoreAtRelease ==
    \A p \in Puts :
        pc[p] = "ingestunlock" =>
            \A s \in body[p].present : CacheEqualsStore(s)

\* C3: a PUT that was accepted, or that holds the Ingest Gate or the admin
\* mutex, eventually answers and then holds neither of them, whether or
\* not any call is ever submitted.
C3_GateAlwaysReleased ==
    \A p \in Puts :
        (pc[p] = "ingestlock" \/ gate = {PutProc(p)} \/ amutex = {p})
            ~> (pc[p] = "done" /\ gate # {PutProc(p)} /\ amutex # {p})

\* a PUT has answered after a store operation failed, the gate and the
\* mutex are free, and no call was ever submitted
C3_Witness ==
    \E p \in Puts :
        /\ pc[p] = "done"
        /\ response[p] = 200
        /\ failures > 0
        /\ gate = {}
        /\ amutex = {}
        /\ inflight = <<>>
        /\ stored = <<>>

\* the configuration caches after a PUT with body b ran alone on cfg
ApplyPut(cfg, b) ==
    [lists |-> [s \in ListSections |->
                    IF s \in b.present THEN b.list ELSE cfg.lists[s]],
     options |-> IF "options" \in b.present
                 THEN OptionsFromMap(cfg.options, b.optmap)
                 ELSE cfg.options]

RECURSIVE ApplyAll(_, _)
ApplyAll(cfg, ps) ==
    IF ps = <<>> THEN cfg
    ELSE ApplyAll(ApplyPut(cfg, body[Head(ps)]), Tail(ps))

\* C4: the critical sections of two PUTs never overlap, and once every
\* PUT has answered the caches are those of the PUTs applied one after the
\* other in the order they entered the critical section (the last one
\* wins); every accepted PUT completes.
C4_Serialized ==
    \A p, q \in Puts : p # q => ~(InCritical(p) /\ InCritical(q))

C4_LastPutWins ==
    (\A p \in Puts : pc[p] = "done") =>
        LET final == ApplyAll([lists |-> InitLists, options |-> InitOptions],
                              order)
        IN  /\ mem = final.lists
            /\ options = final.options

C4_PutsSerialized ==
    /\ [](C4_Serialized /\ C4_LastPutWins)
    /\ \A p \in Puts : (pc[p] = "mutexlock") ~> (pc[p] = "done")

\* both PUTs were accepted and have answered
C4_Witness ==
    /\ Len(order) = 2
    /\ \A p \in Puts : pc[p] = "done" /\ response[p] = 200
    /\ body[order[1]].present = AllSections
    /\ body[order[2]].present # AllSections

\* C6: from the Stop of a PUT until the Start of that same PUT no
\* directory watcher is running.
C6_NoWatcherBetweenStopAndStart ==
    \A p \in Puts :
        pc[p] \in {"frommap", "write", "read", "mutexunlock", "ingestunlock",
                   "emit", "start"}
            => ~dirwatchRunning

\* the number of times c is in the Call Store
TimesStored(c) == Cardinality({i \in 1..Len(stored) : stored[i] = c})

InFlight(c) == \E i \in 1..Len(inflight) : inflight[i] = c

\* C7: every call that is in flight, also while a PUT holds the gate, is
\* eventually stored, and no call is ever stored twice.
C7_EveryCallStoredOnce ==
    /\ \A c \in Calls : InFlight(c) ~> (TimesStored(c) = 1)
    /\ [](\A c \in Calls : TimesStored(c) <= 1)

\* every call is in flight while a PUT applies a section
C7_Witness ==
    \E p \in Puts :
        /\ pc[p] = "write"
        /\ Len(inflight) = NumCalls

\* C8: an accepted PUT emits the configuration exactly once, after its
\* sections are applied and the gate and the mutex are released, and
\* before it restarts the watchers and answers; a rejected PUT emits
\* nothing.
C8_OneEmitConfig ==
    \A p \in Puts :
        /\ emitted[p] =
            IF pc[p] \in {"start", "send"}
               \/ (pc[p] = "done" /\ response[p] = 200)
            THEN 1 ELSE 0
        /\ pc[p] = "emit" =>
            /\ gate # {PutProc(p)}
            /\ amutex # {p}
            /\ sec[p] = NumSections + 1
        /\ emitted[p] = 0 => (started[p] = 0 /\ response[p] # 200)

\* an accepted PUT has emitted, restarted the watchers and answered
C8_Witness ==
    \E p \in Puts :
        /\ pc[p] = "done"
        /\ response[p] = 200
        /\ emitted[p] = 1
        /\ started[p] = 1
        /\ mem["tags"] = {p}

(***************************************************************************)
(* Properties of the other administrative writers and of the hub.          *)
(***************************************************************************)
\* a user or password handler is between its in-memory change and the end
\* of its re-read
WriterInProgress == wpc \in {"write", "read", "pwdwrite", "pwdread"}

\* C5: every administrative writer (configuration PUT, user add, user
\* remove, password change) holds the Ingest Gate from its in-memory
\* change to the end of its re-read, and the ingestion goroutine is not
\* storing a call meanwhile.
C5_WritersHoldGate ==
    /\ \A p \in Puts : InCritical(p) => gate = {PutProc(p)} /\ ~ingesting
    /\ WriterInProgress => gate = {WriterProc} /\ ~ingesting

\* C9: a failed write during a broadcast is an ordinary unregister: the
\* hub's send to admin.Unregister can complete, so that the hub goes on
\* with the rest of the broadcast and with the later events.
C9_FailedWriteIsUnregister ==
    hubpc = "unregister" => ENABLED HubSendUnregister

\* C10: the registry never changes while another goroutine ranges over
\* it.
C10_RegistrySingleOwner ==
    [][Conns' # Conns => wpc # "range"]_vars

\* the goroutines that are at a conn.WriteMessage on connection c: the hub
\* inside its broadcast range (580), BroadcastConfig inside its range in
\* the handler goroutine (73), the reader goroutine of c at its close
\* message (142)
WritersOf(c) ==
    (IF hubpc = "broadcast" /\ c \in hubTodo THEN {"hub"} ELSE {})
    \cup (IF wpc = "range" /\ c \in wTodo THEN {"handler"} ELSE {})
    \cup (IF connpc[c] = "closing" THEN {"reader"} ELSE {})

\* C11: at most one goroutine is at a write on a connection, and none is
\* at a write on a connection that the hub has closed.
C11_OneWriterPerConn ==
    \A c \in ConnIds :
        /\ Cardinality(WritersOf(c)) <= 1
        /\ transport[c] = "closed" => WritersOf(c) = {}

\* C12: a connection whose reader goroutine has left its loop (its read
\* failed or it sent an invalid token) is eventually removed from the
\* registry and closed, and a connection leaves the registry only on the
\* request of its own reader goroutine.
C12_FailureContained ==
    /\ \A c \in ConnIds :
        (connpc[c] = "unregister") ~> (c \notin Conns /\ transport[c] = "closed")
    /\ [][\A d \in Conns \ Conns' : connpc[d] = "unregister"]_vars

(***************************************************************************)
(* Properties of the client's Livefeed Map.                                *)
(***************************************************************************)
\* map m has true for (sys, tg)
HasTrue(m, sys, tg) ==
    sys \in DOMAIN m /\ tg \in DOMAIN m[sys] /\ m[sys][tg] = TRUE

\* a session with map m receives call c
Receives(m, c) ==
    \E tg \in {c.talkgroup} \cup {c.patches[i] : i \in 1..Len(c.patches)} :
        HasTrue(m, c.system, tg)

\* the calls of queue q that a session with map m receives, in their order
RECURSIVE Received(_, _)
Received(m, q) ==
    IF q = <<>> THEN <<>>
    ELSE (IF Receives(m, Head(q)) THEN <<Head(q)>> ELSE <<>>)
         \o Received(m, Tail(q))

\* the step is one of an operation that runs cleanQueue(): a hold is
\* engaged, or avoid() (outside the playback mode) or toggleCategory()
\* ends without an error
CleanQueueRuns ==
    \/ /\ lastOp' \in {"holdSystem", "holdSystem after holdTalkgroup"}
       /\ livefeedMapPriorToHoldSystem = {}
       /\ CallOrPrevious(ClientState) # {}
    \/ /\ lastOp' \in {"holdTalkgroup", "holdTalkgroup after holdSystem"}
       /\ livefeedMapPriorToHoldTalkgroup = {}
       /\ CallOrPrevious(ClientState) # {}
    \/ lastOp' = "avoid" /\ livefeedMode # "playback"
    \/ lastOp' = "toggleCategory"

\* after cleanQueue() the queue holds the calls it held that the session
\* receives under the new map, and a call being played that the session
\* does not receive has been stopped, the head of the queue taking its
\* place or nothing
CleanQueueDone ==
    LET q == Received(livefeedMap', callQueue)
    IN  IF call # {} /\ ~Receives(livefeedMap', The(call))
        THEN /\ callPrevious' = call
             /\ \/ call' = {} /\ callQueue' = q
                \/ q # <<>> /\ call' = {Head(q)} /\ callQueue' = Tail(q)
        ELSE call' = call /\ callQueue' = q

\* the map {1: {100: false, 200: true}}, with talkgroups 1 and 2 for 100
\* and 200
ExampleMap == (1 :> ((1 :> FALSE) @@ (2 :> TRUE)))

\* C13: a call is active for the client exactly when the map has true for
\* its talkgroup or for one of its patches, in its system: the call on
\* (1, 1) patched to 2 is active under the example map and the call on
\* (1, 1) with no patch is not; and every cleanQueue() keeps exactly the
\* queued calls that are active and stops a call being played that is not.
C13_CleanQueueKeepsActive ==
    [][/\ \A m \in {ExampleMap, livefeedMap'}, c \in
              ClientCalls \cup {[CallOf(1) EXCEPT !.patches = <<>>]} :
              IsActive(m, c) <=> Receives(m, c)
       /\ IsActive(ExampleMap, CallOf(1))
       /\ ~IsActive(ExampleMap, [CallOf(1) EXCEPT !.patches = <<>>])
       /\ CleanQueueRuns => CleanQueueDone]_vars

\* avoid() has run under the example map while the call on (1, 1) patched
\* to 2 was being played, and the call is still being played
C13_Witness ==
    /\ lastOp = "avoid"
    /\ livefeedMode = "online"
    /\ livefeedMap = ExampleMap
    /\ call = {CallOf(1)}

\* no hold is active
NoHold ==
    livefeedMapPriorToHoldSystem = {} /\ livefeedMapPriorToHoldTalkgroup = {}

\* the (system, talkgroup) pairs of a map or of a configuration's systems
MapPairs(m) == {p \in Systems \X Talkgroups : HasEntry(m, p[1], p[2])}
ConfigPairs(cfg) == {p \in Systems \X Talkgroups :
                        p[1] \in DOMAIN cfg /\ p[2] \in cfg[p[1]]}

\* C14: a configuration received while no hold is active leaves a map whose
\* pairs are exactly the configuration's pairs, where a pair the map had
\* keeps its value and a pair the map had not is true.
C14_ConfigRebuildsMap ==
    [][lastOp' = "config" /\ NoHold =>
          /\ DOMAIN livefeedMap' = DOMAIN config'
          /\ MapPairs(livefeedMap') = ConfigPairs(config')
          /\ \A p \in MapPairs(livefeedMap') :
                livefeedMap'[p[1]][p[2]] =
                    IF p \in MapPairs(livefeedMap)
                    THEN livefeedMap[p[1]][p[2]] ELSE TRUE]_vars

\* a configuration was received with no hold active, and the map has kept
\* a pair that is false
C14_Witness ==
    /\ lastOp = "config"
    /\ NoHold
    /\ config = (1 :> {1})
    /\ livefeedMap = (1 :> (1 :> FALSE))

\* C15: a hold engaged while no hold is active saves the map as it is, the
\* release is then possible, and a release puts the saved map back and
\* forgets it: engaging and releasing with nothing in between restores the
\* map as it was.
C15_HoldThenReleaseRestores ==
    [][/\ lastOp' = "holdSystem" /\ NoHold /\ CallOrPrevious(ClientState) # {}
            => /\ livefeedMapPriorToHoldSystem' = {livefeedMap}
               /\ livefeedMapPriorToHoldTalkgroup' = {}
               /\ call' # {} \/ callPrevious' # {}
       /\ lastOp' = "holdTalkgroup" /\ NoHold
          /\ CallOrPrevious(ClientState) # {}
            => /\ livefeedMapPriorToHoldTalkgroup' = {livefeedMap}
               /\ livefeedMapPriorToHoldSystem' = {}
               /\ call' # {} \/ callPrevious' # {}
       /\ lastOp' = "holdSystem" /\ livefeedMapPriorToHoldSystem # {}
            => /\ livefeedMap' = The(livefeedMapPriorToHoldSystem)
               /\ livefeedMapPriorToHoldSystem' = {}
               /\ livefeedMapPriorToHoldTalkgroup' = {}
       /\ lastOp' = "holdTalkgroup" /\ livefeedMapPriorToHoldTalkgroup # {}
            => /\ livefeedMap' = The(livefeedMapPriorToHoldTalkgroup)
               /\ livefeedMapPriorToHoldTalkgroup' = {}
               /\ livefeedMapPriorToHoldSystem' = {}]_vars

\* a hold on system 1 has been released, and the map has again the true
\* of system 2 that the hold had made false
C15_Witness ==
    /\ lastOp = "holdSystem"
    /\ NoHold
    /\ CallOrPrevious(ClientState) = {CallOf(1)}
    /\ livefeedMap = (1 :> ((1 :> FALSE) @@ (2 :> TRUE))) @@ (2 :> (2 :> TRUE))

\* the value map m has for the pair p
At(m, p) == m[p[1]][p[2]]

\* C16: a configuration received while a hold is active does not alter what
\* the release restores: every pair of the saved map that the new
\* configuration still has keeps, in the saved map, the value it had.
C16_ConfigKeepsSnapshot ==
    [][lastOp' = "config" =>
          /\ \A old \in livefeedMapPriorToHoldSystem :
                \A new \in livefeedMapPriorToHoldSystem' :
                    \A p \in MapPairs(old) \cap ConfigPairs(config') :
                        p \in MapPairs(new) /\ At(new, p) = At(old, p)
          /\ \A old \in livefeedMapPriorToHoldTalkgroup :
                \A new \in livefeedMapPriorToHoldTalkgroup' :
                    \A p \in MapPairs(old) \cap ConfigPairs(config') :
                        p \in MapPairs(new) /\ At(new, p) = At(old, p)]_vars

\* C17: no operation discards a saved map without restoring it: in every
\* step that leaves a snapshot undefined that was defined, the saved map
\* becomes the current map, or the saved map of the other kind of hold.
C17_HoldStaysReversible ==
    [][/\ \A m \in livefeedMapPriorToHoldSystem :
            livefeedMapPriorToHoldSystem' = {} =>
                livefeedMap' = m \/ livefeedMapPriorToHoldTalkgroup' = {m}
       /\ \A m \in livefeedMapPriorToHoldTalkgroup :
            livefeedMapPriorToHoldTalkgroup' = {} =>
                livefeedMap' = m \/ livefeedMapPriorToHoldSystem' = {m}]_vars

InvalidForGood ==
    \A t \in AllTokens :
        t.id < nextId /\ ~ValidateToken(t) => ~ValidateToken(t)'

\* C19: the token list never holds more than 5 tokens; a successful login
\* made when it holds 5 drops the oldest, keeps the four others in their
\* order and adds the new token last; the dropped token does not validate,
\* and no token that stopped validating validates later.
C19_TokensBoundedFifo ==
    [][/\ Len(Tokens') <= 5
       /\ lastReq'.op = "login" /\ lastReq'.status = 200 /\ Len(Tokens) = 5
            => /\ Tokens' = Append(Tail(Tokens), lastReq'.t)
               /\ \A t \in AllTokens :
                    t = Head(Tokens) => ~ValidateToken(t)'
       /\ InvalidForGood]_vars

\* the sixth token has been issued: the first was dropped and the list
\* holds the second to the sixth, in the order of issue
C19_Witness ==
    /\ lastReq = [op |-> "login", status |-> 200,
                  t |-> SignedToken(6, "s3cret")]
    /\ Tokens = [i \in 1..5 |-> SignedToken(i + 1, "s3cret")]

\* C20: a logout with a token that validates answers 200 and leaves the
\* list without that token and with every other token, in the same order;
\* the token does not validate after it, nor later; a logout with a token
\* that does not validate answers 401 and leaves the list as it is.
C20_LogoutRemovesExactlyToken ==
    [][/\ \A t \in AllTokens :
            lastReq'.op = "logout" /\ lastReq'.t = t =>
                IF ValidateToken(t)
                THEN /\ lastReq'.status = 200
                     /\ Tokens' = SelectSeq(Tokens, LAMBDA x : x # t)
                     /\ Len(Tokens') = Len(Tokens) - 1
                     /\ ~ValidateToken(t)'
                ELSE /\ lastReq'.status = 401
                     /\ Tokens' = Tokens
       /\ InvalidForGood]_vars

\* the second of three tokens has logged out: the first and the third are
\* left, in that order
C20_Witness ==
    /\ lastReq = [op |-> "logout", status |-> 200,
                  t |-> SignedToken(2, "s3cret")]
    /\ Tokens = <<TokenA, SignedToken(3, "s3cret")>>

(***************************************************************************)
(* Properties of the Duplicate Detector and of the Call Store.            *)
(***************************************************************************)
\* the candidates i and j the detector saw are identical, i before j
Identical(i, j) ==
    /\ i < j
    /\ processed[i].call.key = processed[j].call.key

\* candidate j was submitted within the time frame of candidate i
WithinWindow(i, j) == processed[j].call.t - processed[i].call.t <= TimeFrame

Stored(i) == processed[i].id > 0

\* C21, as claimed: of two identical candidates submitted within the time
\* frame the first is stored and the second is not, and two identical
\* candidates submitted further apart are both stored.
C21_OnlyFirstStored ==
    \A i, j \in 1..Len(processed) :
        Identical(i, j) =>
            IF WithinWindow(i, j) THEN Stored(i) /\ ~Stored(j)
            ELSE Stored(i) /\ Stored(j)

\* C21, amended: while the detector is enabled a candidate is rejected
\* exactly when an identical candidate was stored no more than the time
\* frame before it, whatever the sources; every other candidate is stored,
\* and so is every candidate while the detector is disabled.
C21_RejectedIffStoredInWindow ==
    \A j \in 1..Len(processed) :
        ~Stored(j) <=>
            /\ ~disableDuplicateDetection
            /\ \E i \in 1..Len(processed) :
                Identical(i, j) /\ Stored(i) /\ WithinWindow(i, j)

\* two sources have submitted the same call at the same time and one of
\* them again once the time frame had passed: the first and the third are
\* stored, the second is not
C21_Witness ==
    /\ ~disableDuplicateDetection
    /\ Len(processed) = 3
    /\ Identical(1, 2) /\ Identical(2, 3)
    /\ processed[1].call.source # processed[2].call.source
    /\ processed[1].call.t = processed[2].call.t
    /\ ~WithinWindow(1, 3)
    /\ Stored(1) /\ ~Stored(2) /\ Stored(3)

\* C22: the identifiers the store assigned are strictly increasing in the
\* order of storing, so that none is assigned twice, whatever the sources
\* of the calls and whatever has been deleted since.
C22_IdsStrictlyIncreasing ==
    /\ \A i, j \in 1..Len(processed) :
            i < j /\ Stored(i) /\ Stored(j) => processed[i].id < processed[j].id
    /\ \A i, j \in 1..Len(calls) : i < j => calls[i].id < calls[j].id

\* two sources have submitted at the same time, three calls have been
\* stored and the first two deleted: the third has a third identifier
C22_Witness ==
    /\ Len(processed) = 3
    /\ \A i \in 1..3 : Stored(i)
    /\ processed[1].call.source # processed[2].call.source
    /\ processed[1].call.t = processed[2].call.t
    /\ Len(calls) = 1
    /\ calls[1].id = 3

(***************************************************************************)
(* Properties of the playback mode of the client.                          *)
(***************************************************************************)
\* the call message answering the request of loadAndPlay(id) arrives in
\* this step
Answered(id) ==
    /\ Request("CAL", id, NoOptions) \in requests
    /\ Request("CAL", id, NoOptions) \notin requests'
    /\ lastOp' = "call"

\* C24: the answer to a request of loadAndPlay() that a later loadAndPlay()
\* of another call has superseded is neither played nor queued: the call
\* being played and the queue stay as they are.
C24_LateResponseDropped ==
    [][\A a \in 1..MaxServerCalls :
          Answered(a) /\ playbackPending # {} /\ playbackPending # {a} =>
              /\ call' = call
              /\ callQueue' = callQueue]_vars

\* the operations that run playbackNextCall()
PlaybackNextCallRuns == {"skip", "skipTimer", "listCall"}

\* C25: the livefeed mode is one of three; livefeed() takes Offline to
\* Online, and Online and Playback to Offline; loadAndPlay() takes Offline
\* to Playback and leaves Online and Playback as they are; no step goes from
\* Online to Playback; and a step goes from Playback to Online only at the
\* end of the playback, in playbackNextCall() with the list refreshed and
\* the option playbackGoesLive set.
C25_ModeMachine ==
    [][/\ livefeedMode' \in {"offline", "online", "playback"}
       /\ lastOp' = "livefeed" =>
            livefeedMode' = IF livefeedMode = "offline" THEN "online"
                            ELSE "offline"
       /\ lastOp' = "loadAndPlay" =>
            livefeedMode' = IF livefeedMode = "offline" THEN "playback"
                            ELSE livefeedMode
       /\ livefeedMode = "online" => livefeedMode' # "playback"
       /\ livefeedMode = "playback" /\ livefeedMode' = "online" =>
            /\ \E op \in PlaybackNextCallRuns :
                    lastOp' = op \o ", end of playback"
            /\ playbackRefreshing /\ playbackGoesLive]_vars

\* the playback has ended in playbackNextCall() and the service has gone
\* live
C25_Witness ==
    /\ \E op \in PlaybackNextCallRuns : lastOp = op \o ", end of playback"
    /\ livefeedMode = "online"

\* the step leaves the playback mode, and not by livefeed()
PlaybackEnds ==
    /\ livefeedMode = "playback"
    /\ livefeedMode' # "playback"
    /\ lastOp' # "livefeed"

\* the list that arrives in this step is the refreshed list, asked at the
\* end of the list, and has no call newer than the last call played
RefreshShowsNoNewerCall ==
    /\ lastOp' = "listCall, end of playback"
    /\ playbackRefreshing
    /\ \E list \in playbackList', c \in callPrevious :
          \A i \in 1..Len(list.results) : list.results[i].id <= c.id

\* C23: the client leaves the playback mode by itself only when the list,
\* asked again once its last call had been played, arrives and shows no
\* newer call; it then goes Online if the option playbackGoesLive is set
\* and Offline if not.
C23_LeavesWhenCaughtUp ==
    [][PlaybackEnds =>
          /\ RefreshShowsNoNewerCall
          /\ livefeedMode' =
                IF playbackGoesLive THEN "online" ELSE "offline"]_vars

(***************************************************************************)
(* Properties of the admin endpoints.                                      *)
(***************************************************************************)
\* a broadcast of the hub (580) or a configuration push of BroadcastConfig
\* (73) is written to the open connection c in this step
Pushed(c) ==
    \/ c \in delivered' \ delivered
    \/ /\ wpc = "range"
       /\ c \in wTodo \ wTodo'
       /\ Conns' = Conns
       /\ transport[c] = "open"

\* C28: a broadcast or a configuration push is written only to a
\* connection that has presented a token, the token being valid at the
\* time of the write.
C28_PushOnlyToValidated ==
    [][\A c \in ConnIds :
          Pushed(c) => connpc[c] = "validated" /\ ValidateToken(TokenA)]_vars

\* the current password of request r is a string that matches the stored
\* hash
CurrentPasswordMatches(r) ==
    /\ r.currentPassword # NotAString
    /\ CompareHashAndPassword(options.adminPassword, r.currentPassword)

\* C27: a password request whose current password is missing, is not a
\* string or does not match the stored hash is answered with a failure
\* status and starts no password change.
C27_PasswordNeedsCurrent ==
    [][\A r \in PasswordRequests :
          /\ PasswordRequest(r.t, r.decoded, r.currentPassword,
                             r.newPassword, r.hashed)
          /\ ~CurrentPasswordMatches(r)
          => wresp' \in {400, 401, 417} /\ wpc' = "idle"]_vars

\* PUT p, which held an options object, has been answered 200
PutOptionsDone(p) ==
    /\ pc[p] = "done"
    /\ response[p] = 200
    /\ "options" \in body[p].present

\* the last password change has been answered 200
PasswordDone == wpc = "idle" /\ wresp = 200

\* C26: when a configuration PUT with options and a password change have
\* both completed, no store operation having failed, the options in memory
\* and the persisted options are those of the PUT, and the persisted
\* password is the new password, however the two were interleaved.
C26_OptionsNotLost ==
    PutOptionsDone(1) /\ PasswordDone /\ failures = 0 =>
        /\ OptionsJson(options) =
              OptionsJson(OptionsFromMap(options, body[1].optmap))
        /\ dbConfigs.options = OptionsJson(options)
        /\ dbConfigs.adminPassword = Hash(wnew)

\* the password of a login request is a non-empty string that matches the
\* stored hash
LoginPasswordMatches(password) ==
    /\ password \notin {NotAString, ""}
    /\ CompareHashAndPassword(options.adminPassword, password)

\* a login issues a token only for a matching password and a count that,
\* the request included, is at most AttemptsMax; the successful login
\* purges the attempt records
IssuesOnlyWithinAttempts(addr, password) ==
    lastReq'.status = 200 \/ Tokens' # Tokens =>
        /\ LoginPasswordMatches(password)
        /\ Attempts[addr] + 1 <= AttemptsMax
        /\ Tokens' = WithToken(Tokens, lastReq'.t)
        /\ Attempts'[addr] = 0

\* C29, as claimed: every login POST counts and, once the count of its
\* address exceeds AttemptsMax, is answered 401.
C29_EveryPostCounts ==
    [][\A addr \in RemoteAddrs, decoded, issued \in BOOLEAN,
          password \in LoginPasswords :
          Login(addr, decoded, password, issued) =>
              /\ IssuesOnlyWithinAttempts(addr, password)
              /\ lastReq'.status # 200 =>
                    Attempts'[addr] = Attempts[addr] + 1
              /\ Attempts[addr] + 1 > AttemptsMax =>
                    lastReq'.status = 401 /\ Tokens' = Tokens]_vars

\* C29, amended: a login POST whose body cannot be decoded is answered 400
\* and counts for nothing; every other login POST counts before its
\* password is checked: it issues a token only if the password is a
\* non-empty string matching the hash and the count of its address, this
\* request included, is at most AttemptsMax, and once the count exceeds
\* AttemptsMax it is answered 401 with the token list unchanged, whatever
\* the password, until a successful login purges the attempt record.
C29_DecodedPostCounts ==
    [][\A addr \in RemoteAddrs, decoded, issued \in BOOLEAN,
          password \in LoginPasswords :
          Login(addr, decoded, password, issued) =>
              IF ~decoded
              THEN /\ lastReq'.status = 400
                   /\ Tokens' = Tokens
                   /\ Attempts' = Attempts
              ELSE /\ IssuesOnlyWithinAttempts(addr, password)
                   /\ lastReq'.status # 200 =>
                         Attempts'[addr] = Attempts[addr] + 1
                   /\ Attempts[addr] + 1 > AttemptsMax =>
                         lastReq'.status = 401 /\ Tokens' = Tokens]_vars

\* an address whose count had exceeded AttemptsMax has sent one more login
\* and was answered 401; no token has been issued
C29_Witness ==
    /\ lastReq.op = "login" /\ lastReq.status = 401
    /\ \E addr \in RemoteAddrs : Attempts[addr] = AttemptsMax + 2
    /\ Tokens = <<TokenA>>


\* what the server holds, as opposed to the answer to a request and the
\* position of a request in its handler
serverState ==
    <<ingestVars, amutex, Tokens, cfgVars, dirwatchRunning, body, sec,
      emitted, started, order, failures, hubVars, wpc, wnew, wold, wTodo,
      Attempts, nextId, storeVars>>

\* C30: a config GET or PUT, a logs search, a logout, a password change, a
\* user add or a user remove whose Authorization value is not a token of the
\* token list that is a valid signed JWT is answered 401 and changes nothing
\* of what the server holds
C30_UnauthorizedIs401 == [][\A t \in RequestTokens : ~ValidateToken(t) =>
      /\ (\E decoded \in BOOLEAN, b \in Bodies(1) :
              PutRequest(1, t, decoded, b))
            => response'[1] = 401 /\ UNCHANGED serverState
      /\ (\E marshalled \in BOOLEAN : ConfigGet(t, marshalled))
            => lastReq'.status = 401 /\ UNCHANGED serverState
      /\ (\E decoded, found \in BOOLEAN : LogsSearch(t, decoded, found))
            => lastReq'.status = 401 /\ UNCHANGED serverState
      /\ Logout(t)
            => lastReq'.status = 401 /\ UNCHANGED serverState
      /\ (\E r \in PasswordRequests :
              /\ r.t = t
              /\ PasswordRequest(r.t, r.decoded, r.currentPassword,
                                 r.newPassword, r.hashed))
            => wresp' = 401 /\ UNCHANGED serverState
      /\ (\E decoded \in BOOLEAN : UserAddRequest(t, decoded))
            => wresp' = 401 /\ UNCHANGED serverState
      /\ (\E decoded \in BOOLEAN : UserRemoveRequest(t, decoded))
            => wresp' = 401 /\ UNCHANGED serverState]_vars

\* the token of Init has been logged out and was then presented to a config
\* GET, which was answered 401; a PUT and a request of the user or password
\* handlers have been answered 401 as well
C30_Witness ==
    /\ Tokens = <<>>
    /\ lastReq = [op |-> "config", t |-> TokenA, status |-> 401]
    /\ response[1] = 401
    /\ wresp = 401


(***************************************************************************)
(* Properties of the password change and of the configuration PUT.         *)
(***************************************************************************)
\* C31: whenever ChangePassword returns an error, from its tests of the
\* passwords, from the hashing or from the write of the options, the
\* in-memory admin password and the need-change flag are what they were when
\* it was called (Options.Read returns no error)
C31_ChangePasswordAllOrNothing == [][
      /\ (\E r \in PasswordRequests :
              PasswordRequest(r.t, r.decoded, r.currentPassword,
                              r.newPassword, r.hashed))
          /\ wresp' = 417
            => PasswordOf(options') = wold'
      /\ (\E n \in 0..OptionsWriteStages : ChangePasswordWrite(n))
          /\ wresp' = 417
            => PasswordOf(options') = wold]_vars


\* PUT p was rejected: its token did not validate or its body did not decode
Rejected(p) == response[p] \in {400, 401}

\* PUT p has not gone beyond the validation of its token and the decoding
\* of its body
NoTraceOf(p) ==
    /\ pc[p] = "done"
    /\ gate # {PutProc(p)}
    /\ amutex # {p}
    /\ body[p] = NoBody
    /\ sec[p] = 0
    /\ emitted[p] = 0
    /\ started[p] = 0
    /\ \A i \in 1..Len(order) : order[i] # p

\* C32: a configuration PUT that is answered 401 or 400 never holds the
\* Ingest Gate or the admin mutex, never stops or starts the directory
\* watchers, applies no section and emits no configuration notification,
\* and the step that rejects it changes nothing of the configuration, of the
\* watchers or of the locks
C32_RejectedPutHasNoEffect ==
    /\ [](\A p \in Puts : Rejected(p) => NoTraceOf(p))
    /\ [][\A p \in Puts :
            (\E t \in {TokenA, BadToken}, decoded \in BOOLEAN, b \in Bodies(p) :
                PutRequest(p, t, decoded, b)) /\ response'[p] \in {400, 401}
              => UNCHANGED <<ingestVars, amutex, Tokens, cfgVars,
                             dirwatchRunning, hubVars>>]_vars

\* one PUT was answered 401 and the other 400 after a call had been stored
C32_Witness ==
    /\ \E p, q \in Puts : response[p] = 401 /\ response[q] = 400
    /\ Len(stored) > 0


\* section s is the same after the step, in memory and in the store
SectionUnchanged(s) ==
    IF s = "options"
    THEN /\ OptionsJson(options') = OptionsJson(options)
         /\ dbConfigs'.options = dbConfigs.options
    ELSE mem'[s] = mem[s] /\ dbLists'[s] = dbLists[s]

\* the admin password, its need-change flag and the secret are the same
\* after the step in memory
CredentialsUnchangedInMemory ==
    /\ PasswordOf(options') = PasswordOf(options)
    /\ options'.secret = options.secret

\* the admin password, its need-change flag and the secret are the same
\* after the step in the store
CredentialsUnchangedInStore ==
    /\ PasswordOf(dbConfigs') = PasswordOf(dbConfigs)
    /\ dbConfigs'.secret = dbConfigs.secret

\* PUT p leaves its critical section with every list section of its body
\* applied in memory, whatever writes have failed
SectionsApplied(p) ==
    pc[p] # "mutexunlock" /\ pc'[p] = "mutexunlock" =>
        \A s \in body[p].present \ {"options"} : mem'[s] = body[p].list

\* the part of C33 on the sections and on the credentials in memory
PutChangesOnlyItsSections ==
    [][\A p \in Puts : PutRun(p) =>
          /\ \A s \in AllSections \ body[p].present : SectionUnchanged(s)
          /\ SectionsApplied(p)
          /\ CredentialsUnchangedInMemory]_vars

\* C33: a step of a configuration PUT leaves every section that its body
\* does not hold with the expected type unchanged in memory and in the
\* store, the PUT applies every section it holds even after a failed write,
\* and no step of a PUT changes the admin password, the need-change flag or
\* the secret, in memory or in the store
C33_PutChangesOnlyItsSections ==
    [][\A p \in Puts : PutRun(p) =>
          /\ \A s \in AllSections \ body[p].present : SectionUnchanged(s)
          /\ SectionsApplied(p)
          /\ CredentialsUnchangedInMemory
          /\ CredentialsUnchangedInStore]_vars


(***************************************************************************)
(* Properties of the registry of the admin connections.                    *)
(***************************************************************************)
\* the connections the hub has registered and whose unregistration it has
\* not received
RegisteredNotUnregistered ==
    {c \in ConnIds : connpc[c] \in {"reading", "validated", "unregister"}}

\* the part of C34 on the content of the registry: it holds the registered
\* connections that are not unregistered, an unregistration of a connection
\* it does not hold changes nothing, and a connection is closed when it is
\* deleted and only then
RegistryExact ==
    /\ [](Conns = RegisteredNotUnregistered)
    /\ [][\A c \in ConnIds :
            /\ HubUnregister(c) /\ c \notin Conns =>
                  UNCHANGED <<Conns, transport>>
            /\ transport'[c] = "closed" /\ transport[c] # "closed" =>
                  c \in Conns \ Conns']_vars

\* C34: the registry holds exactly the connections registered and not yet
\* unregistered, an unregistration of a connection that is not in it is a
\* no-op, and a connection that the hub unregisters for a failed write, and
\* whose reader goroutine unregisters it as well, is deleted and closed, once
C34_UnregisteredOnce ==
    /\ RegistryExact
    /\ \A c \in ConnIds :
          (hubpc = "unregister" /\ c \in hubConn)
              ~> (c \notin Conns /\ transport[c] = "closed")

=============================================================================
